---- MODULE Spec2Model ----
(***************************************************************************)
(* Model of the retail-insights assistant:                                 *)
(*   - the four-stage agent graph of backend/agents.py                     *)
(*     (query_resolution -> data_extraction -> validation -> synthesis)    *)
(*     driven by MultiAgentRetailAssistant.process_query;                  *)
(*   - QueryCache / WorkflowOrchestrator of backend/scalability.py.        *)
(*                                                                         *)
(* Python strings are TLA+ strings; substring tests, lower(), strip() and  *)
(* split() are computed character by character.  Two characters cannot be  *)
(* written in a TLA+ string literal and are transliterated, as is the      *)
(* bullet of the list answers:                                             *)
(*   three backticks (the Markdown fence)  is written  ~~~                 *)
(*   the rupee sign                        is written  Rs                  *)
(*   the bullet                            is written  *                   *)
(* Python dicts are functions from key strings to values; the empty dict   *)
(* is << >>; None of an Optional[str] is << >> and a value s is << s >>.   *)
(***************************************************************************)
EXTENDS Integers, Sequences, FiniteSets, TLC

(***************************************************************************)
(* Bounds of the model                                                     *)
(***************************************************************************)
\* largest number of rows the query engine returns in the model
MaxEngineRows == 102
\* execute_with_cache calls explored on one orchestrator
MaxCalls == 2
\* latest time of the clock
MaxTime == 2
\* records logged on top of the log a run of the monitor starts with
MaxLogged == 2

(***************************************************************************)
(* Python string primitives                                                *)
(***************************************************************************)
\* `p in s`
Contains(s, p) ==
    \E i \in 1..(Len(s) - Len(p) + 1) : SubSeq(s, i, i + Len(p) - 1) = p

\* any(w in s for w in ws)
ContainsAny(s, ws) == \E w \in ws : Contains(s, w)

UpperChars == <<"A","B","C","D","E","F","G","H","I","J","K","L","M",
                "N","O","P","Q","R","S","T","U","V","W","X","Y","Z">>
LowerChars == <<"a","b","c","d","e","f","g","h","i","j","k","l","m",
                "n","o","p","q","r","s","t","u","v","w","x","y","z">>

LowerChar(c) ==
    IF \E i \in 1..26 : UpperChars[i] = c
    THEN LowerChars[CHOOSE i \in 1..26 : UpperChars[i] = c]
    ELSE c

\* str.lower()
RECURSIVE Lower(_)
Lower(s) ==
    IF s = "" THEN ""
    ELSE LowerChar(SubSeq(s, 1, 1)) \o Lower(SubSeq(s, 2, Len(s)))

Whitespace == {" ", "\n", "\t", "\r"}

\* str.strip()
RECURSIVE Strip(_)
Strip(s) ==
    IF s = "" THEN ""
    ELSE IF SubSeq(s, 1, 1) \in Whitespace THEN Strip(SubSeq(s, 2, Len(s)))
    ELSE IF SubSeq(s, Len(s), Len(s)) \in Whitespace
         THEN Strip(SubSeq(s, 1, Len(s) - 1))
    ELSE s

\* index of the first occurrence of p in s (p occurs in s)
Find(s, p) ==
    CHOOSE i \in 1..(Len(s) - Len(p) + 1) :
        /\ SubSeq(s, i, i + Len(p) - 1) = p
        /\ \A j \in 1..(i - 1) : SubSeq(s, j, j + Len(p) - 1) # p

\* s.split(p)[0]
SplitFirst(s, p) ==
    IF Contains(s, p) THEN SubSeq(s, 1, Find(s, p) - 1) ELSE s

\* what follows the first occurrence of p in s
AfterFirst(s, p) == SubSeq(s, Find(s, p) + Len(p), Len(s))

\* s.split(p)[1]   (p occurs in s)
SplitSecond(s, p) == SplitFirst(AfterFirst(s, p), p)

Digits == <<"0","1","2","3","4","5","6","7","8","9">>

\* str(n) for a natural number n
RECURSIVE NatStr(_)
NatStr(n) ==
    IF n < 10 THEN Digits[n + 1]
    ELSE NatStr(n \div 10) \o Digits[(n % 10) + 1]

\* three digits, zero padded
Pad3(n) == Digits[(n \div 100) + 1] \o Digits[((n \div 10) % 10) + 1]
           \o Digits[(n % 10) + 1]

\* f"{n:,}" and f"{n:,.0f}" for a natural number n
RECURSIVE Commas(_)
Commas(n) ==
    IF n < 1000 THEN NatStr(n)
    ELSE Commas(n \div 1000) \o "," \o Pad3(n % 1000)

\* f"{n:,.2f}" for a natural number n
Commas2f(n) == Commas(n) \o ".00"

\* f"{n:.2f}" for a natural number n
Fixed2f(n) == NatStr(n) \o ".00"

\* dict.get(k, default)
Get(d, k, default) == IF k \in DOMAIN d THEN d[k] ELSE default

\* sep.join(items), halving the list
RECURSIVE Join(_, _)
Join(items, sep) ==
    IF items = << >> THEN ""
    ELSE IF Len(items) = 1 THEN items[1]
    ELSE LET h == Len(items) \div 2 IN
         Join(SubSeq(items, 1, h), sep) \o sep
         \o Join(SubSeq(items, h + 1, Len(items)), sep)

\* "\n".join(lines)
JoinLines(lines) == Join(lines, "\n")

\* seq[:n]
Take(seq, n) == SubSeq(seq, 1, IF Len(seq) < n THEN Len(seq) ELSE n)

Min(a, b) == IF a < b THEN a ELSE b

(***************************************************************************)
(* The data set behind RetailDataProcessor.get_summary_statistics          *)
(* (data_processor.py 96-232): the keys are always present; the lists are  *)
(* empty when the table is empty, missing, or holds only NULLs.            *)
(***************************************************************************)
AmazonLoaded ==
    [total_orders |-> 222, unique_orders |-> 220, total_revenue |-> 1234567,
     avg_order_value |-> 5561, unique_categories |-> 2, unique_states |-> 2]
AmazonEmpty ==
    [total_orders |-> 0, unique_orders |-> 0, total_revenue |-> 0,
     avg_order_value |-> 0, unique_categories |-> 0, unique_states |-> 0]
IntlStats ==
    [total_transactions |-> 10, total_pieces |-> 40, total_revenue |-> 9000,
     unique_customers |-> 3]
InventoryStats ==
    [total_skus |-> 7, total_stock |-> 1500, unique_categories |-> 2,
     unique_colors |-> 4]
TopCategories ==
    << [Category |-> "Set", order_count |-> 1200, revenue |-> 834567],
       [Category |-> "Kurta", order_count |-> 80, revenue |-> 400000] >>
TopStates ==
    << [state |-> "MAHARASHTRA", order_count |-> 150, revenue |-> 900000],
       [state |-> "KARNATAKA", order_count |-> 72, revenue |-> 334567] >>
StatusWithCancel ==
    << [Status |-> "Shipped", count |-> 180, percentage |-> 81],
       [Status |-> "Cancelled", count |-> 42, percentage |-> 19] >>
StatusNoCancel ==
    << [Status |-> "Shipped", count |-> 222, percentage |-> 100] >>

SummaryStats(amazon, cats, states, status) ==
    [amazon_sales |-> amazon, top_categories |-> cats, top_states |-> states,
     status_distribution |-> status, international_sales |-> IntlStats,
     inventory |-> InventoryStats]

\* the data sets the assistant may have been constructed over
Datasets ==
    { SummaryStats(AmazonLoaded, TopCategories, TopStates, StatusWithCancel),
      SummaryStats(AmazonLoaded, << >>, TopStates, StatusNoCancel),
      SummaryStats(AmazonEmpty, << >>, << >>, << >>) }

\* RetailDataProcessor.get_schema_info
SchemaInfo ==
    [amazon_sales |-> <<"Order ID", "Category", "Status", "ship-state", "Amount">>,
     inventory |-> <<"SKU Code", "Category", "Stock">>]

(***************************************************************************)
(* The caller's questions                                                  *)
(***************************************************************************)
SummaryPrompt ==
    "Generate a comprehensive summary of retail performance across all datasets"

Questions ==
    { "What is the total revenue?",
      "What are the top 5 selling categories?",
      "Which state has the highest revenue?",
      "Top 1 categories by state and total revenue",
      "How many orders were cancelled?",
      "Show low stock products in the top categories",
      "Tell me about returns",
      SummaryPrompt }

Modes == {"summary", "qa"}

(***************************************************************************)
(* Replies of the LLM to the Resolution prompt, and json.loads             *)
(***************************************************************************)
Fence == "~~~"
FenceJson == "~~~json"

SqlTopCategories ==
    "SELECT Category, SUM(Amount) AS TotalSales FROM amazon_sales GROUP BY Category"
SqlStock == "SELECT * FROM inventory WHERE Stock < 10"

JsonQa ==
    "{\"query_type\": \"qa\", \"reasoning\": \"ranked list\", \"sql_query\": \"SELECT Category, SUM(Amount) AS TotalSales FROM amazon_sales GROUP BY Category\"}"
JsonSummary ==
    "{\"query_type\": \"summary\", \"reasoning\": \"overview\", \"sql_query\": \"SELECT * FROM inventory WHERE Stock < 10\"}"
JsonNoSql == "{\"query_type\": \"summary\", \"intent\": \"KPI\"}"
JsonScalar == "42"

\* the JSON documents among the texts the model's LLM produces, parsed
JsonDocuments ==
    (JsonQa :> [query_type |-> "qa", reasoning |-> "ranked list",
                sql_query |-> SqlTopCategories])
    @@ (JsonSummary :> [query_type |-> "summary", reasoning |-> "overview",
                        sql_query |-> SqlStock])
    @@ (JsonNoSql :> [query_type |-> "summary", intent |-> "KPI"])

\* JSON texts whose value is no object
JsonScalars == {JsonScalar}

ResolutionReplies ==
    { JsonQa,
      JsonSummary,
      JsonNoSql,
      JsonScalar,
      FenceJson \o "\n" \o JsonSummary \o "\n" \o Fence,
      "Here is the query:\n" \o Fence \o "\n" \o JsonQa \o "\n" \o Fence \o "\nLet me know.",
      "~~~JSON\n" \o JsonQa \o "\n" \o Fence,
      FenceJson \o "\n{\"sql_query\": \"SELECT\n" \o Fence,
      "{\"sql_query\": \"SELECT",
      "I cannot answer that." }

\* texts the LLM returns to a Synthesis prompt
SynthesisReplies == {"", "Revenue was strong this period."}

\* json.loads: << "ok", value >>, or << "JSONDecodeError" >>
json_loads(content) ==
    LET t == Strip(content) IN
    IF t \in DOMAIN JsonDocuments THEN << "object", JsonDocuments[t] >>
    ELSE IF t \in JsonScalars THEN << "scalar" >>
    ELSE << "JSONDecodeError" >>

(***************************************************************************)
(* Results of the query engine (RetailDataProcessor.execute_query): a      *)
(* DataFrame is its columns, the columns that hold numbers, and its rows   *)
(* in the order the engine returned them.                                  *)
(***************************************************************************)
\* the i-th measure the engine returns: not sorted in either direction
EngineValue(i) == ((i * 37) % 103) * 40

FrameShapes == {"category_sales", "state_revenue", "single_value", "stock", "text_pairs"}

FrameColumns(shape) ==
    CASE shape = "category_sales" -> <<"Category", "TotalSales">>
      [] shape = "state_revenue"  -> <<"ship-state", "total_revenue">>
      [] shape = "single_value"   -> <<"avg_order_value">>
      [] shape = "stock"          -> <<"SKU Code", "Category", "Stock">>
      [] shape = "text_pairs"     -> <<"Category", "Status">>

FrameNumeric(shape) ==
    CASE shape = "category_sales" -> {"TotalSales"}
      [] shape = "state_revenue"  -> {"total_revenue"}
      [] shape = "single_value"   -> {"avg_order_value"}
      [] shape = "stock"          -> {"Stock"}
      [] shape = "text_pairs"     -> {}

FrameRow(shape, i) ==
    CASE shape = "category_sales" ->
            [Category |-> "Cat" \o NatStr(i), TotalSales |-> EngineValue(i)]
      [] shape = "state_revenue" ->
            ("ship-state" :> ("State" \o NatStr(i)))
            @@ ("total_revenue" :> EngineValue(i))
      [] shape = "single_value" -> [avg_order_value |-> EngineValue(i)]
      [] shape = "stock" ->
            ("SKU Code" :> ("SKU" \o NatStr(i)))
            @@ ("Category" :> ("Cat" \o NatStr(i)))
            @@ ("Stock" :> (i % 7))
      [] shape = "text_pairs" ->
            [Category |-> "Cat" \o NatStr(i), Status |-> "Shipped"]

DataFrame(shape, n) ==
    [columns |-> FrameColumns(shape),
     numeric |-> FrameNumeric(shape),
     records |-> [i \in 1..n |-> FrameRow(shape, i)]]

\* the row limit of data_extraction_agent
RowLimit == 100

\* row counts around the limits the code tests (0, 1, 10, the row limit)
RowCounts == {0, 1, 2, 11, RowLimit, RowLimit + 1, MaxEngineRows}

DataFrames == {DataFrame(shape, n) : shape \in FrameShapes, n \in RowCounts}

\* what execute_query does with a query: a frame, or an exception
EngineOutcomes ==
    {<<"ok", df>> : df \in DataFrames}
    \cup {<<"raise", "Catalog Error: Table with name sales does not exist!">>}

\* what get_summary_statistics does over the data set: the statistics, or
\* an exception (data_processor.py 228-230)
StatsOutcomes(data) == {<<"ok", data>>, <<"raise", "IO Error: database closed">>}

\* len(df)
FrameLen(df) == Len(df.records)

\* head taking the last n rows instead of the first
head_Tail(df, n) ==
    [df EXCEPT !.records =
        SubSeq(df.records,
               IF Len(df.records) > n THEN Len(df.records) - n + 1 ELSE 1,
               Len(df.records))]

\* df.head(n)
head(df, n) == [df EXCEPT !.records = Take(df.records, n)]

(***************************************************************************)
(* The workflow state (AgentState) and the effects of one stage            *)
(***************************************************************************)
HumanMessage(content) == [type |-> "human", content |-> content]
AIMessage(content) == [type |-> "ai", content |-> content]

\* a call of the LLM: the profile (llm, llm_short), the prompt, its inputs
LLMCall(profile, prompt, inputs) ==
    [llm |-> profile, prompt |-> prompt, inputs |-> inputs]

\* a call of execute_query and what it did
SqlCall(sql, outcome) == [sql |-> sql, outcome |-> outcome]

\* what running a stage did: the state it returns (or the exception it
\* raises), and the calls it made, in order: of execute_query, of
\* get_summary_statistics (each with its outcome), of the LLM, and the
\* number of calls of _generate_direct_answer
Returns(st) ==
    [raised |-> FALSE, state |-> st, exception |-> "",
     sql |-> << >>, stats |-> << >>, llm |-> << >>, direct |-> 0]
Raises(st, exc) == [Returns(st) EXCEPT !.raised = TRUE, !.exception = exc]

(***************************************************************************)
(* Stage 1: query_resolution_agent                                         *)
(***************************************************************************)
\* the text handed to json.loads: the reply with its Markdown fence removed
StripFences(content) ==
    IF Contains(content, FenceJson)
    THEN Strip(SplitFirst(SplitSecond(content, FenceJson), Fence))
    ELSE IF Contains(content, Fence)
    THEN Strip(SplitFirst(SplitSecond(content, Fence), Fence))
    ELSE content

\* ResolutionParseFailure falling back to a default query
ResolutionParseFailure_DefaultSql(st) ==
    [st EXCEPT !.query_type = "qa",
               !.sql_query = "SELECT * FROM amazon_sales",
               !.messages = st.messages \o
                   <<AIMessage("I need help understanding your query. Could you rephrase it?")>>]

\* the except branch of query_resolution_agent
ResolutionParseFailure(st) ==
    [st EXCEPT !.query_type = "qa",
               !.sql_query = "",
               !.messages = st.messages \o
                   <<AIMessage("I need help understanding your query. Could you rephrase it?")>>]

\* the try branch of query_resolution_agent, json.loads having returned result
ResolutionParsed(st, result) ==
    [st EXCEPT !.sql_query = Get(result, "sql_query", ""),
               !.messages = st.messages \o
                   <<AIMessage("Query Analysis: " \o Get(result, "reasoning", ""))>>]

\* schema: the outcome of get_schema_info; reply: the outcome of the LLM call
query_resolution_agent(st, schema, reply) ==
    LET call == LLMCall("llm", "resolution", <<SchemaInfo, st.user_query>>) IN
    IF schema[1] = "raise" THEN Raises(st, schema[2])
    ELSE IF reply[1] = "raise"
    THEN [Raises(st, reply[2]) EXCEPT !.llm = <<call>>]
    ELSE
        LET parsed == json_loads(StripFences(reply[2])) IN
        IF parsed[1] = "scalar"
        THEN [Raises(st, "AttributeError: object has no attribute 'get'")
                 EXCEPT !.llm = <<call>>]
        ELSE
            LET after == IF parsed[1] = "JSONDecodeError"
                         THEN ResolutionParseFailure(st)
                         ELSE ResolutionParsed(st, parsed[2])
            IN [Returns([after EXCEPT !.schema_info = schema[2],
                                      !.iteration = st.iteration + 1])
                   EXCEPT !.llm = <<call>>]

(***************************************************************************)
(* Stage 2: data_extraction_agent                                          *)
(***************************************************************************)
\* the result of a successful execute_query, packaged
PackageFrame(df) ==
    IF FrameLen(df) > 0
    THEN LET limited == IF FrameLen(df) > RowLimit THEN head(df, RowLimit) ELSE df
         IN [data |-> limited.records,
             row_count |-> FrameLen(limited),
             columns |-> limited.columns,
             numeric |-> limited.numeric]
    ELSE [data |-> << >>, row_count |-> 0, columns |-> << >>, numeric |-> {}]

\* len(result_df) as the "Data extracted" message reads it
ExtractedLen(df) ==
    IF FrameLen(df) > RowLimit THEN RowLimit ELSE FrameLen(df)

\* ExtractionFailure marking the error record PASSED
ExtractionFailure_ErrorPassed(st, exc, stats) ==
    IF st.query_type = "qa"
    THEN IF stats[1] = "ok"
         THEN [st EXCEPT !.data_result = stats[2],
                         !.validation_status = "PASSED",
                         !.messages = st.messages \o
                             <<AIMessage("Using summary data to answer your question")>>]
         ELSE [st EXCEPT !.data_result =
                             [error |-> "Query error: " \o exc,
                              data |-> << >>, row_count |-> 0],
                         !.validation_status = "PASSED",
                         !.messages = st.messages \o
                             <<AIMessage("I encountered an error: " \o Take(exc, 100))>>]
    ELSE [st EXCEPT !.data_result = [error |-> exc, data |-> << >>, row_count |-> 0],
                    !.messages = st.messages \o
                        <<AIMessage("Error extracting data: " \o exc)>>]

\* ExtractionFailure whose fallback forgets to set validation_status
ExtractionFailure_NoStatus(st, exc, stats) ==
    IF st.query_type = "qa"
    THEN IF stats[1] = "ok"
         THEN [st EXCEPT !.data_result = stats[2],
                         !.messages = st.messages \o
                             <<AIMessage("Using summary data to answer your question")>>]
         ELSE [st EXCEPT !.data_result =
                             [error |-> "Query error: " \o exc,
                              data |-> << >>, row_count |-> 0],
                         !.messages = st.messages \o
                             <<AIMessage("I encountered an error: " \o Take(exc, 100))>>]
    ELSE [st EXCEPT !.data_result = [error |-> exc, data |-> << >>, row_count |-> 0],
                    !.messages = st.messages \o
                        <<AIMessage("Error extracting data: " \o exc)>>]

\* the except branch: the SQL raised exc; stats is the outcome of the fallback
ExtractionFailure(st, exc, stats) ==
    IF st.query_type = "qa"
    THEN IF stats[1] = "ok"
         THEN [st EXCEPT !.data_result = stats[2],
                         !.validation_status = "PASSED",
                         !.messages = st.messages \o
                             <<AIMessage("Using summary data to answer your question")>>]
         ELSE [st EXCEPT !.data_result =
                             [error |-> "Query error: " \o exc,
                              data |-> << >>, row_count |-> 0],
                         !.messages = st.messages \o
                             <<AIMessage("I encountered an error: " \o Take(exc, 100))>>]
    ELSE [st EXCEPT !.data_result = [error |-> exc, data |-> << >>, row_count |-> 0],
                    !.messages = st.messages \o
                        <<AIMessage("Error extracting data: " \o exc)>>]

\* UseSummaryStatistics leaving validation_status for Validation to set
UseSummaryStatistics_NoStatus(st, stats) ==
    IF stats[1] = "raise"
    THEN [Raises(st, stats[2]) EXCEPT !.stats = <<stats[1]>>]
    ELSE [Returns([st EXCEPT !.data_result = stats[2]])
             EXCEPT !.stats = <<stats[1]>>]

\* the two branches that answer from the aggregate statistics alone;
\* stats is the outcome of get_summary_statistics
UseSummaryStatistics(st, stats) ==
    IF stats[1] = "raise"
    THEN [Raises(st, stats[2]) EXCEPT !.stats = <<stats[1]>>]
    ELSE [Returns([st EXCEPT !.data_result = stats[2],
                             !.validation_status = "PASSED"])
             EXCEPT !.stats = <<stats[1]>>]

\* data_extraction_agent without the summary-mode branch: it looks at
\* sql_query first
data_extraction_agent_SqlFirst(st, stats, exec) ==
    IF st.sql_query = ""
    THEN UseSummaryStatistics(st, stats)
    ELSE IF exec[1] = "ok"
    THEN [Returns([st EXCEPT !.data_result = PackageFrame(exec[2]),
                             !.messages = st.messages \o
                                 <<AIMessage("Data extracted: "
                                             \o NatStr(ExtractedLen(exec[2]))
                                             \o " rows retrieved")>>])
             EXCEPT !.sql = <<SqlCall(st.sql_query, exec)>>]
    ELSE [Returns(ExtractionFailure(st, exec[2], stats))
             EXCEPT !.sql = <<SqlCall(st.sql_query, exec)>>,
                    !.stats = IF st.query_type = "qa" THEN <<stats[1]>> ELSE << >>]

\* stats: the outcome of get_summary_statistics where the stage calls it;
\* exec: the outcome of execute_query where the stage calls it
data_extraction_agent(st, stats, exec) ==
    IF st.query_type = "summary"
    THEN IF st.summary_stats # << >>
         THEN Returns([st EXCEPT !.data_result = st.summary_stats,
                                 !.validation_status = "PASSED"])
         ELSE UseSummaryStatistics(st, stats)
    ELSE IF st.sql_query = ""
    THEN UseSummaryStatistics(st, stats)
    ELSE IF exec[1] = "ok"
    THEN [Returns([st EXCEPT !.data_result = PackageFrame(exec[2]),
                             !.messages = st.messages \o
                                 <<AIMessage("Data extracted: "
                                             \o NatStr(ExtractedLen(exec[2]))
                                             \o " rows retrieved")>>])
             EXCEPT !.sql = <<SqlCall(st.sql_query, exec)>>]
    ELSE [Returns(ExtractionFailure(st, exec[2], stats))
             EXCEPT !.sql = <<SqlCall(st.sql_query, exec)>>,
                    !.stats = IF st.query_type = "qa" THEN <<stats[1]>> ELSE << >>]

(***************************************************************************)
(* Stage 3: validation_agent                                               *)
(***************************************************************************)
\* ValidationStatus without the zero-row branch
ValidationStatus_NoWarning(data_result) ==
    IF "error" \in DOMAIN data_result THEN "FAILED" ELSE "PASSED"

\* ValidationStatus looking at row_count before the error key
ValidationStatus_RowsFirst(data_result) ==
    IF Get(data_result, "row_count", 0) = 0 THEN "WARNING"
    ELSE IF "error" \in DOMAIN data_result THEN "FAILED"
    ELSE "PASSED"

\* the status validation_agent assigns when it does not skip
ValidationStatus(data_result) ==
    IF "error" \in DOMAIN data_result THEN "FAILED"
    ELSE IF Get(data_result, "row_count", 0) = 0 THEN "WARNING"
    ELSE "PASSED"

\* validation_agent also writing its verdict into final_response
validation_agent_Responds(st) ==
    IF st.validation_status = "PASSED"
    THEN Returns(st)
    ELSE LET status == ValidationStatus(st.data_result) IN
         Returns([st EXCEPT !.validation_status = status,
                            !.final_response = "Validation: " \o status,
                            !.messages = st.messages \o
                                <<AIMessage("Validation: " \o status)>>])

\* validation_agent without the early return on PASSED
validation_agent_NoSkip(st) ==
    LET status == ValidationStatus(st.data_result) IN
    Returns([st EXCEPT !.validation_status = status,
                       !.messages = st.messages \o
                           <<AIMessage("Validation: " \o status)>>])

validation_agent(st) ==
    IF st.validation_status = "PASSED"
    THEN Returns(st)
    ELSE LET status == ValidationStatus(st.data_result) IN
         Returns([st EXCEPT !.validation_status = status,
                            !.messages = st.messages \o
                                <<AIMessage("Validation: " \o status)>>])

(***************************************************************************)
(* _generate_direct_answer                                                 *)
(***************************************************************************)
DigitChars == {Digits[d] : d \in 1..10}

IsDigit(c) == c \in DigitChars

\* int(s) for a string of digits
RECURSIVE StrNat(_)
StrNat(s) ==
    IF s = "" THEN 0
    ELSE StrNat(SubSeq(s, 1, Len(s) - 1)) * 10
         + (CHOOSE d \in 0..9 : Digits[d + 1] = SubSeq(s, Len(s), Len(s)))

CharAt(s, i) == IF i >= 1 /\ i <= Len(s) THEN SubSeq(s, i, i) ELSE ""

\* s[i-1:j], the slice cut at the end of the string
Slice(s, i, j) == SubSeq(s, i, IF j > Len(s) THEN Len(s) ELSE j)

\* the end of the longest run of characters of one class that starts at i
RunEnd(s, i, class) ==
    CHOOSE j \in i..Len(s) :
        /\ \A k \in i..j : CharAt(s, k) \in class
        /\ CharAt(s, j + 1) \notin class

IsSpace(c) == c \in Whitespace

\* top\s+(\d+) matches at i
TopThenDigits(s, i) ==
    /\ Slice(s, i, i + 2) = "top"
    /\ IsSpace(CharAt(s, i + 3))
    /\ IsDigit(CharAt(s, RunEnd(s, i + 3, Whitespace) + 1))

\* (\d+)\s+top matches at i
DigitsThenTop(s, i) ==
    /\ IsDigit(CharAt(s, i))
    /\ IsSpace(CharAt(s, RunEnd(s, i, DigitChars) + 1))
    /\ LET e == RunEnd(s, RunEnd(s, i, DigitChars) + 1, Whitespace)
       IN Slice(s, e + 1, e + 3) = "top"

\* re.search(r'top\s+(\d+)|(\d+)\s+top', q): the requested count, default 5
RequestedCount(q) ==
    LET starts == {i \in 1..Len(q) : TopThenDigits(q, i) \/ DigitsThenTop(q, i)} IN
    IF starts = {} THEN 5
    ELSE LET i == CHOOSE m \in starts : \A n \in starts : m <= n IN
         IF TopThenDigits(q, i)
         THEN LET d == RunEnd(q, i + 3, Whitespace) + 1
              IN StrNat(SubSeq(q, d, RunEnd(q, d, DigitChars)))
         ELSE StrNat(SubSeq(q, i, RunEnd(q, i, DigitChars)))

\* row.get(k1) or row.get(k2) or ... or 0, over numeric columns
RECURSIVE FirstTruthy(_, _)
FirstTruthy(row, keys) ==
    IF keys = << >> THEN 0
    ELSE IF keys[1] \in DOMAIN row /\ row[keys[1]] # 0 THEN row[keys[1]]
    ELSE FirstTruthy(row, Tail(keys))

\* row.get(k1, row.get(k2, default))
Get2(row, k1, k2, default) == Get(row, k1, Get(row, k2, default))

\* a cell as an f-string prints it
CellStr(data, row, col, default) ==
    IF col \notin DOMAIN row THEN default
    ELSE IF col \in data.numeric THEN NatStr(row[col])
    ELSE row[col]

\* the rules for a packaged SQL result, tried in order; a rule that does
\* not apply, or applies and finds nothing to format, yields << >>
SqlTopCategoriesPattern(q) ==
    /\ (Contains(q, "categor") \/ Contains(q, "selling"))
    /\ ContainsAny(q, {"top", "best", "highest", "5", "five"})

SqlTopCategoriesRule(q, data) ==
    IF SqlTopCategoriesPattern(q) /\ Len(data.data) > 0
    THEN << JoinLines(<<"**Top Selling Categories:**">> \o
              [i \in 1..Len(data.data) |->
                  NatStr(i) \o ". " \o Get2(data.data[i], "Category", "category", "?")
                  \o " - Rs"
                  \o Commas(FirstTruthy(data.data[i],
                        <<"TotalSales", "total_sales", "revenue", "Amount">>))]) >>
    ELSE << >>

SqlStateRevenuePattern(q) ==
    /\ Contains(q, "state")
    /\ ContainsAny(q, {"highest", "most", "top", "best"})
    /\ Contains(q, "revenue")

SqlStateRevenueRule(q, data) ==
    IF SqlStateRevenuePattern(q) /\ Len(data.data) > 0
    THEN << "**" \o Get2(data.data[1], "ship-state", "state", "?")
            \o "** has the highest revenue at Rs"
            \o Commas(FirstTruthy(data.data[1],
                  <<"total_revenue", "TotalRevenue", "revenue", "Amount">>))
            \o "." >>
    ELSE << >>

SqlLowStockPattern(q) == ContainsAny(q, {"stock", "inventory", "low"})

SqlLowStockRule(q, data) ==
    IF SqlLowStockPattern(q) /\ data.row_count > 0
    THEN LET shown == Take(data.data, 10)
             line(i) ==
                 LET row == shown[i]
                     design == Get2(row, "Design No.", "design", "")
                     sku == Get2(row, "SKU Code", "sku", "?")
                 IN NatStr(i) \o ". " \o Get2(row, "Category", "category", "?")
                    \o " - " \o (IF design # "" THEN design ELSE sku)
                    \o " (Stock: " \o NatStr(Get2(row, "Stock", "stock", 0)) \o ")"
         IN << JoinLines(
                 <<"**Found " \o NatStr(data.row_count) \o " products with low stock:**">>
                 \o [i \in 1..Len(shown) |-> line(i)]
                 \o (IF data.row_count > 10
                     THEN <<"...and " \o NatStr(data.row_count - 10) \o " more products">>
                     ELSE << >>)) >>
    ELSE << >>

SqlSingleRowRule(q, data) ==
    IF data.row_count = 1 /\ Len(data.columns) <= 2
    THEN LET row == data.data[1] IN
         IF Len(data.columns) = 1
         THEN << "**" \o CellStr(data, row, data.columns[1], "?") \o "**" >>
         ELSE LET k == CellStr(data, row, data.columns[1], "?")
                  c == data.columns[2]
              IN IF c \in DOMAIN row /\ c \in data.numeric
                 THEN IF row[c] > 1000
                      THEN << "**" \o k \o ":** Rs" \o Commas(row[c]) >>
                      ELSE << "**" \o k \o ":** " \o Commas2f(row[c]) >>
                 ELSE << "**" \o k \o ":** " \o CellStr(data, row, c, "?") >>
    ELSE << >>

SqlRankedListRule(q, data) ==
    IF /\ data.row_count > 1
       /\ Len(data.columns) = 2
       /\ data.columns[2] \in data.numeric
    THEN LET shown == Take(data.data, 10)
             line(i) ==
                 LET k == CellStr(data, shown[i], data.columns[1], "?")
                     v == Get(shown[i], data.columns[2], 0)
                 IN NatStr(i) \o ". " \o k \o " - "
                    \o (IF v > 1000 THEN "Rs" \o Commas(v)
                        ELSE IF v > 1 THEN Commas2f(v)
                        ELSE Fixed2f(v))
         IN << JoinLines(
                 <<"**" \o data.columns[1] \o " by " \o data.columns[2] \o ":**">>
                 \o [i \in 1..Len(shown) |-> line(i)]
                 \o (IF data.row_count > 10
                     THEN <<"...and " \o NatStr(data.row_count - 10) \o " more">>
                     ELSE << >>)) >>
    ELSE << >>

\* the rules for the aggregate statistics ("OLD LOGIC"), tried in order
TopCategoriesPattern(q) ==
    /\ (Contains(q, "categor") \/ Contains(q, "product") \/ Contains(q, "selling"))
    /\ ContainsAny(q, {"top", "best", "highest", "5", "five"})

TopCategoriesRule(q, data) ==
    LET cats == Get(data, "top_categories", << >>) IN
    IF TopCategoriesPattern(q) /\ cats # << >>
    THEN LET shown == Take(cats, RequestedCount(q)) IN
         << JoinLines(
              <<"**Top " \o NatStr(RequestedCount(q)) \o " Categories by Revenue:**">>
              \o [i \in 1..Len(shown) |->
                    NatStr(i) \o ". " \o Get(shown[i], "Category", "?")
                    \o " - Rs" \o Commas(Get(shown[i], "revenue", 0))
                    \o " (" \o Commas(Get(shown[i], "order_count", 0)) \o " orders)"]) >>
    ELSE << >>

TopStatesPattern(q) ==
    ContainsAny(q, {"top", "best", "highest"}) /\ Contains(q, "state")

TopStatesRule(q, data) ==
    LET states == Get(data, "top_states", << >>) IN
    IF TopStatesPattern(q) /\ states # << >>
    THEN LET shown == Take(states, RequestedCount(q)) IN
         << JoinLines(
              <<"**Top " \o NatStr(RequestedCount(q)) \o " States by Revenue:**">>
              \o [i \in 1..Len(shown) |->
                    NatStr(i) \o ". " \o Get(shown[i], "state", "?")
                    \o " - Rs" \o Commas(Get(shown[i], "revenue", 0))
                    \o " (" \o Commas(Get(shown[i], "order_count", 0)) \o " orders)"]) >>
    ELSE << >>

WhichStatePattern(q) ==
    Contains(q, "which state") /\ ContainsAny(q, {"highest", "most", "top"})

WhichStateRule(q, data) ==
    LET states == Get(data, "top_states", << >>) IN
    IF WhichStatePattern(q) /\ states # << >>
    THEN << "**" \o Get(states[1], "state", "?")
            \o "** has the highest revenue at Rs"
            \o Commas(Get(states[1], "revenue", 0)) \o " from "
            \o Commas(Get(states[1], "order_count", 0)) \o " orders." >>
    ELSE << >>

CancelledPattern(q) == Contains(q, "cancel")

CancelledRule(q, data) ==
    LET status == Get(data, "status_distribution", << >>)
        hits == {i \in 1..Len(status) :
                    Contains(Lower(Get(status[i], "Status", "")), "cancel")}
    IN IF CancelledPattern(q) /\ hits # {}
       THEN LET s == status[CHOOSE i \in hits : \A j \in hits : i <= j] IN
            << "**" \o Commas(Get(s, "count", 0)) \o " orders were cancelled** ("
               \o NatStr(Get(s, "percentage", 0)) \o "% of total)." >>
       ELSE << >>

TotalRevenuePattern(q) ==
    Contains(q, "total revenue") \/ Contains(q, "total sales")

TotalRevenueRule(q, data) ==
    LET amazon == Get(data, "amazon_sales", << >>) IN
    IF TotalRevenuePattern(q)
    THEN << "**Total Revenue:** Rs" \o Commas(Get(amazon, "total_revenue", 0))
            \o " from " \o Commas(Get(amazon, "total_orders", 0)) \o " orders." >>
    ELSE << >>

AverageOrderPattern(q) == Contains(q, "average") /\ Contains(q, "order")

AverageOrderRule(q, data) ==
    LET amazon == Get(data, "amazon_sales", << >>) IN
    IF AverageOrderPattern(q)
    THEN << "**Average Order Value:** Rs"
            \o Commas2f(Get(amazon, "avg_order_value", 0)) >>
    ELSE << >>

HowManyOrdersPattern(q) == Contains(q, "how many") /\ Contains(q, "order")

HowManyOrdersRule(q, data) ==
    LET amazon == Get(data, "amazon_sales", << >>) IN
    IF HowManyOrdersPattern(q)
    THEN << "**Total Orders:** " \o Commas(Get(amazon, "total_orders", 0)) >>
    ELSE << >>

StatusDistributionPattern(q) ==
    Contains(q, "status") /\ Contains(q, "distribution")

StatusDistributionRule(q, data) ==
    LET status == Take(Get(data, "status_distribution", << >>), 5) IN
    IF StatusDistributionPattern(q) /\ status # << >>
    THEN << JoinLines(
              <<"**Order Status Distribution:**">>
              \o [i \in 1..Len(status) |->
                    "* " \o Get(status[i], "Status", "?") \o " - "
                    \o Commas(Get(status[i], "count", 0))
                    \o " (" \o NatStr(Get(status[i], "percentage", 0)) \o "%)"]) >>
    ELSE << >>

\* the first answer of a list of rule results, << >> when there is none
RECURSIVE FirstAnswer(_)
FirstAnswer(results) ==
    IF results = << >> THEN << >>
    ELSE IF results[1] # << >> THEN results[1]
    ELSE FirstAnswer(Tail(results))

IsSqlResult(data) == {"data", "row_count", "columns"} \subseteq DOMAIN data

\* the answers of the SQL-result rules, in the order the code tries them
SqlRuleAnswers(q, data) ==
    << SqlTopCategoriesRule(q, data), SqlStateRevenueRule(q, data),
       SqlLowStockRule(q, data), SqlSingleRowRule(q, data),
       SqlRankedListRule(q, data) >>

\* StatsRuleAnswers with the states rule tried before the categories rule
StatsRuleAnswers_Reordered(q, data) ==
    << TopStatesRule(q, data), TopCategoriesRule(q, data),
       WhichStateRule(q, data), CancelledRule(q, data),
       TotalRevenueRule(q, data), AverageOrderRule(q, data),
       HowManyOrdersRule(q, data), StatusDistributionRule(q, data) >>

\* the answers of the aggregate-statistics rules, in the order the code
\* tries them
StatsRuleAnswers(q, data) ==
    << TopCategoriesRule(q, data), TopStatesRule(q, data),
       WhichStateRule(q, data), CancelledRule(q, data),
       TotalRevenueRule(q, data), AverageOrderRule(q, data),
       HowManyOrdersRule(q, data), StatusDistributionRule(q, data) >>

\* _generate_direct_answer going on to the aggregate-statistics rules when
\* no SQL-result rule answers
generate_direct_answer_FallsThrough(query, data) ==
    LET q == Lower(query) IN
    IF IsSqlResult(data)
    THEN IF data.row_count = 0
         THEN << "No matching data found for your query." >>
         ELSE IF FirstAnswer(SqlRuleAnswers(q, data)) # << >>
         THEN FirstAnswer(SqlRuleAnswers(q, data))
         ELSE FirstAnswer(StatsRuleAnswers(q, data))
    ELSE FirstAnswer(StatsRuleAnswers(q, data))

\* _generate_direct_answer: << answer >>, or << >> for None
generate_direct_answer(query, data) ==
    LET q == Lower(query) IN
    IF IsSqlResult(data)
    THEN IF data.row_count = 0
         THEN << "No matching data found for your query." >>
         ELSE FirstAnswer(SqlRuleAnswers(q, data))
    ELSE FirstAnswer(StatsRuleAnswers(q, data))

(***************************************************************************)
(* _format_data_concisely                                                  *)
(***************************************************************************)
\* ", ".join(items)
JoinComma(items) == Join(items, ", ")

\* " | ".join(parts)
JoinBar(parts) == Join(parts, " | ")

RevenueList(items, key, n) ==
    JoinComma([i \in 1..Len(Take(items, n)) |->
                  Get(items[i], key, "?") \o ": Rs" \o Commas(Get(items[i], "revenue", 0))])

format_data_concisely(query, full_data) ==
    LET q == Lower(query)
        has(k) == k \in DOMAIN full_data
        sales ==
            IF has("amazon_sales")
            THEN << "Sales: " \o Commas(Get(full_data.amazon_sales, "total_orders", 0))
                    \o " orders, Rs"
                    \o Commas(Get(full_data.amazon_sales, "total_revenue", 0))
                    \o " revenue, Rs"
                    \o Commas(Get(full_data.amazon_sales, "avg_order_value", 0))
                    \o " avg order" >>
            ELSE << >>
        cats ==
            IF has("top_categories") /\ ContainsAny(q, {"categor", "product", "selling", "top"})
            THEN << "Top Categories: " \o RevenueList(full_data.top_categories, "Category", 5) >>
            ELSE << >>
        states ==
            IF has("top_states") /\ ContainsAny(q, {"state", "region", "where", "location"})
            THEN << "Top States: " \o RevenueList(full_data.top_states, "state", 5) >>
            ELSE << >>
        status ==
            IF has("status_distribution") /\ ContainsAny(q, {"status", "cancel", "deliver", "ship"})
            THEN LET st == Take(full_data.status_distribution, 5) IN
                 << "Order Status: " \o
                    JoinComma([i \in 1..Len(st) |->
                        Get(st[i], "Status", "?") \o ": " \o Commas(Get(st[i], "count", 0))
                        \o " (" \o NatStr(Get(st[i], "percentage", 0)) \o "%)"]) >>
            ELSE << >>
        inv ==
            IF has("inventory") /\ ContainsAny(q, {"inventory", "stock", "sku"})
            THEN << "Inventory: " \o Commas(Get(full_data.inventory, "total_skus", 0))
                    \o " SKUs, " \o Commas(Get(full_data.inventory, "total_stock", 0))
                    \o " units" >>
            ELSE << >>
        parts == sales \o cats \o states \o status \o inv
        basic ==
            IF Len(parts) <= 1
            THEN (IF has("top_categories")
                  THEN << "Top Categories: "
                          \o RevenueList(full_data.top_categories, "Category", 5) >>
                  ELSE << >>)
                 \o (IF has("top_states")
                     THEN << "Top States: "
                             \o RevenueList(full_data.top_states, "state", 3) >>
                     ELSE << >>)
            ELSE << >>
    IN JoinBar(parts \o basic)

(***************************************************************************)
(* Stage 4: synthesis_agent                                                *)
(***************************************************************************)
\* the LLM call of synthesis_agent when no direct answer is returned
SynthesisCall(st) ==
    IF st.validation_status = "FAILED"
    THEN LLMCall("llm", "failed",
                 <<st.user_query, Get(st.data_result, "error", "Unknown error")>>)
    ELSE IF st.validation_status = "WARNING"
    THEN LLMCall("llm", "warning", <<st.user_query>>)
    ELSE IF st.query_type = "summary"
    THEN LLMCall("llm", "summary", <<st.user_query, st.data_result>>)
    ELSE IF "data" \in DOMAIN st.data_result /\ Get(st.data_result, "row_count", 0) > 0
    THEN LLMCall("llm_short", "qa_rows",
                 <<st.user_query, st.data_result.row_count,
                   Take(st.data_result.data, 20)>>)
    ELSE LLMCall("llm_short", "qa_concise",
                 <<st.user_query, format_data_concisely(st.user_query, st.data_result)>>)

\* QaBranch letting a WARNING state through to the direct-answer generator
QaBranch_OnWarning(st) ==
    /\ st.validation_status # "FAILED"
    /\ st.query_type # "summary"

\* whether synthesis_agent reaches the Q&A branch, where it tries a direct
\* answer before any LLM call
QaBranch(st) ==
    /\ st.validation_status \notin {"FAILED", "WARNING"}
    /\ st.query_type # "summary"

\* Respond setting final_response without logging the text
Respond_Unlogged(st, text) ==
    [st EXCEPT !.final_response = text]

\* Respond also marking the invocation done in validation_status
Respond_MarksDone(st, text) ==
    [st EXCEPT !.final_response = text,
               !.validation_status = "DONE",
               !.messages = st.messages \o <<AIMessage(text)>>]

\* the state synthesis_agent returns with the text it settled on
Respond(st, text) ==
    [st EXCEPT !.final_response = text,
               !.messages = st.messages \o <<AIMessage(text)>>]

\* synthesis_agent answering with the apology when its LLM call raises
synthesis_agent_Apologises(st, reply) ==
    LET direct == IF QaBranch(st)
                  THEN generate_direct_answer(st.user_query, st.data_result)
                  ELSE << >>
        tried == IF QaBranch(st) THEN 1 ELSE 0
    IN IF direct # << >> /\ direct[1] # ""
       THEN [Returns(Respond(st, direct[1])) EXCEPT !.direct = tried]
       ELSE IF reply[1] = "raise"
       THEN [Returns(Respond(st, "I apologize, but I couldn't generate a response."))
                EXCEPT !.llm = <<SynthesisCall(st)>>, !.direct = tried]
       ELSE [Returns(Respond(st, reply[2])) EXCEPT !.llm = <<SynthesisCall(st)>>,
                                                   !.direct = tried]

\* synthesis_agent calling the LLM even when it returns the direct answer
synthesis_agent_AsksAnyway(st, reply) ==
    LET direct == IF QaBranch(st)
                  THEN generate_direct_answer(st.user_query, st.data_result)
                  ELSE << >>
        tried == IF QaBranch(st) THEN 1 ELSE 0
    IN IF direct # << >> /\ direct[1] # ""
       THEN [Returns(Respond(st, direct[1])) EXCEPT !.llm = <<SynthesisCall(st)>>,
                                                    !.direct = tried]
       ELSE IF reply[1] = "raise"
       THEN [Raises(st, reply[2]) EXCEPT !.llm = <<SynthesisCall(st)>>,
                                         !.direct = tried]
       ELSE [Returns(Respond(st, reply[2])) EXCEPT !.llm = <<SynthesisCall(st)>>,
                                                   !.direct = tried]

\* reply: the outcome of the LLM call, where the stage makes one
synthesis_agent(st, reply) ==
    LET direct == IF QaBranch(st)
                  THEN generate_direct_answer(st.user_query, st.data_result)
                  ELSE << >>
        tried == IF QaBranch(st) THEN 1 ELSE 0
    IN IF direct # << >> /\ direct[1] # ""
       THEN [Returns(Respond(st, direct[1])) EXCEPT !.direct = tried]
       ELSE IF reply[1] = "raise"
       THEN [Raises(st, reply[2]) EXCEPT !.llm = <<SynthesisCall(st)>>,
                                         !.direct = tried]
       ELSE [Returns(Respond(st, reply[2])) EXCEPT !.llm = <<SynthesisCall(st)>>,
                                                   !.direct = tried]

(***************************************************************************)
(* QueryCache and WorkflowOrchestrator (scalability.py)                    *)
(***************************************************************************)
\* Python's None, as a value an executor returns or a lookup yields
None == "None"

\* the values executors return in the model
ExecutorValues == {None, "rows:A", "rows:B"}

ExecutorOutcomes ==
    {<<"ok", v>> : v \in ExecutorValues}
    \cup {<<"raise", "Binder Error: column not found">>}

CacheQueries == {SqlTopCategories, SqlStock}

\* hashlib.md5(query.encode()).hexdigest()
Md5Hex(query) ==
    CASE query = SqlTopCategories -> "894217e83615c7726aba46527d0d0768"
      [] query = SqlStock -> "97aca3ed11bd2e3ea07daedbe2634297"

\* the default of the ttl parameter
DefaultTtl == 3600

TTLs == {0, 1, DefaultTtl}

pickle_dumps(value) == <<"pickle", value>>
pickle_loads(data) == data[2]

\* QueryCache.__init__; installed: whether `import redis` succeeds
NewQueryCache(backend, redis_url, installed) ==
    [backend |-> IF backend = "redis" /\ redis_url /\ ~installed
                 THEN "memory" ELSE backend,
     redis_client |-> backend = "redis" /\ redis_url /\ installed,
     memory_cache |-> << >>,
     redis_db |-> << >>]

\* the caches a caller can construct
QueryCaches ==
    {NewQueryCache(b, u, i) : b \in {"memory", "redis"}, u \in BOOLEAN, i \in BOOLEAN}

\* QueryCache.get returning an external entry whatever its expiry
QueryCache_get_IgnoresExpiry(c, key, time, up) ==
    IF c.backend = "memory"
    THEN Get(c.memory_cache, key, None)
    ELSE IF c.redis_client /\ up /\ key \in DOMAIN c.redis_db
         THEN pickle_loads(c.redis_db[key].data)
         ELSE None

\* QueryCache.get; up: whether the store answers this request
QueryCache_get(c, key, time, up) ==
    IF c.backend = "memory"
    THEN Get(c.memory_cache, key, None)
    ELSE IF c.redis_client /\ up /\ key \in DOMAIN c.redis_db
            /\ c.redis_db[key].expires > time
         THEN pickle_loads(c.redis_db[key].data)
         ELSE None

\* QueryCache.set refusing a ttl that is not positive on either backend
QueryCache_set_RefusesZeroTtl(c, key, value, ttl, time, up) ==
    IF c.backend = "memory"
    THEN IF ttl > 0
         THEN [c EXCEPT !.memory_cache = (key :> value) @@ c.memory_cache]
         ELSE c
    ELSE IF c.redis_client /\ up /\ ttl > 0
         THEN [c EXCEPT !.redis_db =
                  (key :> [data |-> pickle_dumps(value), expires |-> time + ttl])
                  @@ c.redis_db]
         ELSE c

\* QueryCache.set: SETEX refuses a ttl that is not positive
QueryCache_set(c, key, value, ttl, time, up) ==
    IF c.backend = "memory"
    THEN [c EXCEPT !.memory_cache = (key :> value) @@ c.memory_cache]
    ELSE IF c.redis_client /\ up /\ ttl > 0
         THEN [c EXCEPT !.redis_db =
                  (key :> [data |-> pickle_dumps(value), expires |-> time + ttl])
                  @@ c.redis_db]
         ELSE c

\* QueryCache.clear
QueryCache_clear(c, up) ==
    IF c.backend = "memory"
    THEN [c EXCEPT !.memory_cache = << >>]
    ELSE IF c.redis_client /\ up THEN [c EXCEPT !.redis_db = << >>]
         ELSE c

\* WorkflowOrchestrator.__init__
NewOrchestrator(c) ==
    [cache |-> c,
     metrics |-> [queries_executed |-> 0, cache_hits |-> 0,
                  cache_misses |-> 0, errors |-> 0]]

\* whether execute_with_cache takes the lookup for a hit
IsHit(looked_up) == looked_up # None

\* execute_with_cache storing the exception text when the executor raises
execute_with_cache_CachesFailure(orch, query, executor, ttl, time, up_get, up_set) ==
    LET cache_key == Md5Hex(query)
        looked_up == QueryCache_get(orch.cache, cache_key, time, up_get)
    IN IF IsHit(looked_up)
       THEN [orch |-> [orch EXCEPT !.metrics.cache_hits = @ + 1],
             call |-> [query |-> query, ttl |-> ttl, hit |-> TRUE, executed |-> FALSE,
                       outcome |-> <<"return", looked_up>>, at |-> time]]
       ELSE LET counted == [orch EXCEPT !.metrics.cache_misses = @ + 1,
                                        !.metrics.queries_executed = @ + 1]
            IN IF executor[1] = "ok"
               THEN [orch |-> [counted EXCEPT !.cache =
                                  QueryCache_set(orch.cache, cache_key, executor[2],
                                                 ttl, time, up_set)],
                     call |-> [query |-> query, ttl |-> ttl, hit |-> FALSE, executed |-> TRUE,
                               outcome |-> <<"return", executor[2]>>, at |-> time]]
               ELSE [orch |-> [counted EXCEPT !.metrics.errors = @ + 1,
                                              !.cache =
                                  QueryCache_set(orch.cache, cache_key, executor[2],
                                                 ttl, time, up_set)],
                     call |-> [query |-> query, ttl |-> ttl, hit |-> FALSE, executed |-> TRUE,
                               outcome |-> <<"raise", executor[2]>>, at |-> time]]

\* execute_with_cache counting an executed query only once executor_fn returned
execute_with_cache_CountsOnSuccess(orch, query, executor, ttl, time, up_get, up_set) ==
    LET cache_key == Md5Hex(query)
        looked_up == QueryCache_get(orch.cache, cache_key, time, up_get)
    IN IF IsHit(looked_up)
       THEN [orch |-> [orch EXCEPT !.metrics.cache_hits = @ + 1],
             call |-> [query |-> query, ttl |-> ttl, hit |-> TRUE, executed |-> FALSE,
                       outcome |-> <<"return", looked_up>>, at |-> time]]
       ELSE LET counted == [orch EXCEPT !.metrics.cache_misses = @ + 1]
            IN IF executor[1] = "ok"
               THEN [orch |-> [counted EXCEPT !.metrics.queries_executed = @ + 1,
                                              !.cache =
                                  QueryCache_set(orch.cache, cache_key, executor[2],
                                                 ttl, time, up_set)],
                     call |-> [query |-> query, ttl |-> ttl, hit |-> FALSE, executed |-> TRUE,
                               outcome |-> <<"return", executor[2]>>, at |-> time]]
               ELSE [orch |-> [counted EXCEPT !.metrics.errors = @ + 1],
                     call |-> [query |-> query, ttl |-> ttl, hit |-> FALSE, executed |-> TRUE,
                               outcome |-> <<"raise", executor[2]>>, at |-> time]]

\* execute_with_cache: the orchestrator afterwards and the call's record.
\* executor: what executor_fn does if it is invoked
execute_with_cache(orch, query, executor, ttl, time, up_get, up_set) ==
    LET cache_key == Md5Hex(query)
        looked_up == QueryCache_get(orch.cache, cache_key, time, up_get)
    IN IF IsHit(looked_up)
       THEN [orch |-> [orch EXCEPT !.metrics.cache_hits = @ + 1],
             call |-> [query |-> query, ttl |-> ttl, hit |-> TRUE, executed |-> FALSE,
                       outcome |-> <<"return", looked_up>>, at |-> time]]
       ELSE LET counted == [orch EXCEPT !.metrics.cache_misses = @ + 1,
                                        !.metrics.queries_executed = @ + 1]
            IN IF executor[1] = "ok"
               THEN [orch |-> [counted EXCEPT !.cache =
                                  QueryCache_set(orch.cache, cache_key, executor[2],
                                                 ttl, time, up_set)],
                     call |-> [query |-> query, ttl |-> ttl, hit |-> FALSE, executed |-> TRUE,
                               outcome |-> <<"return", executor[2]>>, at |-> time]]
               ELSE [orch |-> [counted EXCEPT !.metrics.errors = @ + 1],
                     call |-> [query |-> query, ttl |-> ttl, hit |-> FALSE, executed |-> TRUE,
                               outcome |-> <<"raise", executor[2]>>, at |-> time]]

\* get_metrics
get_metrics(orch) ==
    LET total == orch.metrics.cache_hits + orch.metrics.cache_misses IN
    [queries_executed |-> orch.metrics.queries_executed,
     cache_hits |-> orch.metrics.cache_hits,
     cache_misses |-> orch.metrics.cache_misses,
     errors |-> orch.metrics.errors,
     total_requests |-> total]

(***************************************************************************)
(* PerformanceMonitor (scalability.py)                                     *)
(* Costs are held in units of 1e-8 dollar and times in milliseconds, so    *)
(* that sums and comparisons are exact.                                    *)
(***************************************************************************)
\* cost_per_model, per 1K tokens, in units of 1e-5 dollar
cost_per_model ==
    ("gpt-4" :> 3000) @@ ("gpt-3.5-turbo" :> 150) @@ ("gemini-pro" :> 25)

\* PerformanceMonitor.__init__
NewPerformanceMonitor == [query_log |-> << >>]

\* the entry log_query appends
LogEntry(query, execution_time, tokens_used, model) ==
    [query |-> query,
     execution_time |-> execution_time,
     tokens |-> tokens_used,
     model |-> model,
     estimated_cost |-> tokens_used * Get(cost_per_model, model, 0)]

\* log_query
log_query(monitor, query, execution_time, tokens_used, model) ==
    [monitor EXCEPT !.query_log =
        Append(@, LogEntry(query, execution_time, tokens_used, model))]

\* a number of n/10^digits as Python prints a float: trailing zeros of the
\* fraction dropped, one fraction digit at least
RECURSIVE FloatRepr(_, _)
FloatRepr(n, digits) ==
    IF digits = 1 THEN NatStr(n \div 10) \o "." \o Digits[(n % 10) + 1]
    ELSE IF n % 10 = 0 THEN FloatRepr(n \div 10, digits - 1)
    ELSE FloatRepr(n \div 10, digits - 1) \o Digits[(n % 10) + 1]

\* f"{total_cost:.2f}" of a cost in units of 1e-8 dollar
Dollars2f(cost) ==
    LET cents == (cost + 500000) \div 1000000 IN
    NatStr(cents \div 100) \o "." \o Digits[((cents \div 10) % 10) + 1]
    \o Digits[(cents % 10) + 1]

\* the number of records check_alert_thresholds looks at
RecentWindow == 100

\* query_log[-100:] if len(query_log) > 100 else query_log
recent_queries(query_log) ==
    IF Len(query_log) > RecentWindow
    THEN SubSeq(query_log, Len(query_log) - RecentWindow + 1, Len(query_log))
    ELSE query_log

\* sum(q["estimated_cost"] for q in queries), halving the list
RECURSIVE SumCost(_)
SumCost(queries) ==
    IF queries = << >> THEN 0
    ELSE IF Len(queries) = 1 THEN queries[1].estimated_cost
    ELSE LET h == Len(queries) \div 2 IN
         SumCost(SubSeq(queries, 1, h)) + SumCost(SubSeq(queries, h + 1, Len(queries)))

\* check_alert_thresholds looking at the whole log
check_alert_thresholds_WholeLog(monitor, max_cost, max_latency) ==
    LET recent == monitor.query_log
        total_cost == SumCost(recent)
        slow_queries == {i \in 1..Len(recent) : recent[i].execution_time > max_latency}
    IN (IF total_cost > max_cost
        THEN <<"ALERT: Cost threshold exceeded: $" \o Dollars2f(total_cost)
               \o " > $" \o FloatRepr(max_cost, 8)>>
        ELSE << >>)
       \o
       (IF slow_queries # {}
        THEN <<"ALERT: " \o NatStr(Cardinality(slow_queries))
               \o " slow queries (>" \o FloatRepr(max_latency, 3) \o "s)">>
        ELSE << >>)

\* check_alert_thresholds: the alerts, in the order the code appends them
check_alert_thresholds(monitor, max_cost, max_latency) ==
    LET recent == recent_queries(monitor.query_log)
        total_cost == SumCost(recent)
        slow_queries == {i \in 1..Len(recent) : recent[i].execution_time > max_latency}
    IN (IF total_cost > max_cost
        THEN <<"ALERT: Cost threshold exceeded: $" \o Dollars2f(total_cost)
               \o " > $" \o FloatRepr(max_cost, 8)>>
        ELSE << >>)
       \o
       (IF slow_queries # {}
        THEN <<"ALERT: " \o NatStr(Cardinality(slow_queries))
               \o " slow queries (>" \o FloatRepr(max_latency, 3) \o "s)">>
        ELSE << >>)

\* len(s.split())
WordCount(s) ==
    Cardinality({i \in 1..Len(s) :
                    /\ SubSeq(s, i, i) \notin Whitespace
                    /\ i = 1 \/ SubSeq(s, i - 1, i - 1) \in Whitespace})

\* int(len(user_query.split()) * 1.3 + len(response.split()) * 1.3)
estimated_tokens(user_query, response) ==
    (13 * WordCount(user_query) + 13 * WordCount(response)) \div 10

GEMINI_MODEL == "gemini-2.5-flash"
OPENAI_MODEL == "gpt-3.5-turbo"
Providers == {"Google Gemini", "OpenAI"}

\* what process_query does with the monitor once the graph has returned;
\* << >> stands for the monitor being None
LogPerformance(monitor, provider, user_query, final_state, execution_time) ==
    IF monitor = << >> THEN monitor
    ELSE log_query(monitor, user_query, execution_time,
                   estimated_tokens(user_query, Get(final_state, "final_response", "")),
                   IF provider = "Google Gemini" THEN GEMINI_MODEL ELSE OPENAI_MODEL)

\* get_alerts
get_alerts(monitor, max_cost, max_latency) ==
    IF monitor = << >> THEN << >>
    ELSE check_alert_thresholds(monitor, max_cost, max_latency)

\* elapsed times of an invocation, in milliseconds
ExecutionTimes == {2500, 12000}

(***************************************************************************)
(* The agent graph (_build_graph) and process_query                        *)
(***************************************************************************)
VARIABLES
    dataset,      \* the data the RetailDataProcessor was loaded with
    pc,           \* "idle", the node about to run, "END", "returned", "raised"
    state,        \* the AgentState held by the graph
    caller,       \* the arguments of the running process_query call
    trace,        \* the nodes run in this invocation, in order
    llm_calls,    \* the LLM calls made in this invocation, in order
    llm_replies,  \* what each of those calls did: a reply or an exception
    sql_calls,    \* the execute_query calls of this invocation
    stats_calls,  \* the get_summary_statistics calls of this invocation
    direct_calls, \* calls of _generate_direct_answer in this invocation
    result,       \* what process_query gave its caller
    orchestrator, \* the WorkflowOrchestrator: its QueryCache and its metrics
    now,          \* the clock the external key-value store expires entries by
    ncalls,       \* execute_with_cache calls made so far
    prev_call,    \* the execute_with_cache call before the last one
    last_call,    \* the last execute_with_cache call
    redis_twin,   \* a second orchestrator, over the external key-value
                  \* cache, given the same calls; << >> where there is none
    performance_monitor, \* the PerformanceMonitor; << >> where there is none
    alerts,       \* the last check_alert_thresholds call: its arguments and
                  \* what it returned; << >> once the log has grown since
    nlogged,      \* records logged since the monitor's run began
    threads       \* the callers running execute_with_cache at once, each
                  \* with its position in the method; << >> where there
                  \* is one caller

wvars == <<dataset, pc, state, caller, trace, llm_calls, llm_replies, sql_calls,
          stats_calls, direct_calls, result>>
cvars == <<orchestrator, now, ncalls, prev_call, last_call, redis_twin, threads>>
mvars == <<performance_monitor, alerts, nlogged>>
vars == <<wvars, cvars, mvars>>

EntryPoint == "query_resolution"

\* Edge with a retry edge from validation back to data_extraction
Edge_RetryLoop(node) ==
    CASE node = "query_resolution" -> "data_extraction"
      [] node = "data_extraction"  -> "validation"
      [] node = "validation"       -> "data_extraction"
      [] node = "synthesis"        -> "END"

\* workflow.add_edge
Edge(node) ==
    CASE node = "query_resolution" -> "data_extraction"
      [] node = "data_extraction"  -> "validation"
      [] node = "validation"       -> "synthesis"
      [] node = "synthesis"        -> "END"

\* Reduce keeping only the newest message
Reduce_Latest(held, returned) ==
    [returned EXCEPT !.messages = <<returned.messages[Len(returned.messages)]>>]

\* how the graph folds the state a node returns into the state it holds:
\* messages is Annotated with operator.add, every other key is overwritten
Reduce(held, returned) ==
    [returned EXCEPT !.messages = held.messages \o returned.messages]

Apology == "I apologize, but I couldn't generate a response."

LLMOutcomes(replies) ==
    {<<"ok", r>> : r \in replies} \cup {<<"raise", "APIError: rate limit exceeded">>}

SchemaOutcomes == {<<"ok", SchemaInfo>>, <<"raise", "IO Error: database closed">>}

initial_state(user_query, query_type) ==
    [messages |-> <<HumanMessage(user_query)>>,
     user_query |-> user_query,
     query_type |-> query_type,
     sql_query |-> "",
     data_result |-> << >>,
     validation_status |-> "",
     final_response |-> "",
     schema_info |-> << >>,
     summary_stats |-> << >>,
     iteration |-> 0]

\* the state process_query hands to graph.invoke
PreparedState(user_query, query_type, stats) ==
    IF query_type = "summary"
    THEN [initial_state(user_query, query_type) EXCEPT
              !.summary_stats = stats, !.data_result = stats]
    ELSE initial_state(user_query, query_type)

\* the assistant after __init__, before any query
WorkflowInit ==
    /\ dataset \in Datasets
    /\ pc = "idle"
    /\ state = << >>
    /\ caller = << >>
    /\ trace = << >>
    /\ llm_calls = << >>
    /\ llm_replies = << >>
    /\ sql_calls = << >>
    /\ stats_calls = << >>
    /\ direct_calls = 0
    /\ result = << >>

\* performance_monitor is None
NoMonitor ==
    /\ performance_monitor = << >>
    /\ alerts = << >>
    /\ nlogged = 0

\* an orchestrator over cache c, before any call
CacheInit(c) ==
    /\ orchestrator = NewOrchestrator(c)
    /\ now = 0
    /\ ncalls = 0
    /\ prev_call = << >>
    /\ last_call = << >>
    /\ redis_twin = << >>
    /\ threads = << >>

\* the assistant after __init__, running without a performance monitor;
\* an orchestrator over the in-process cache stands beside it
Init ==
    /\ WorkflowInit
    /\ CacheInit(NewQueryCache("memory", FALSE, TRUE))
    /\ NoMonitor

\* process_query up to graph.invoke
ProcessQuery ==
    /\ pc \in {"idle", "returned", "raised"}
    /\ \E user_query \in Questions, query_type \in Modes,
          stats \in StatsOutcomes(dataset) :
        /\ caller' = [user_query |-> user_query, query_type |-> query_type]
        /\ trace' = << >>
        /\ llm_calls' = << >>
        /\ llm_replies' = << >>
        /\ sql_calls' = << >>
        /\ stats_calls' = IF query_type = "summary" THEN <<stats[1]>> ELSE << >>
        /\ direct_calls' = 0
        /\ IF query_type = "summary" /\ stats[1] = "raise"
           THEN /\ pc' = "raised"
                /\ state' = << >>
                /\ result' = <<"raise", stats[2]>>
           ELSE /\ pc' = EntryPoint
                /\ state' = PreparedState(user_query, query_type, stats[2])
                /\ result' = << >>
    /\ UNCHANGED <<dataset, cvars, mvars>>

\* the graph runs one node and follows its edge
\* reply: the outcome of the LLM call the node makes, where it makes one
RunNode(node, effects, reply) ==
    /\ pc = node
    /\ trace' = Append(trace, node)
    /\ llm_calls' = llm_calls \o effects.llm
    /\ llm_replies' = IF effects.llm = << >> THEN llm_replies
                      ELSE Append(llm_replies, reply)
    /\ sql_calls' = sql_calls \o effects.sql
    /\ stats_calls' = stats_calls \o effects.stats
    /\ direct_calls' = direct_calls + effects.direct
    /\ IF effects.raised
       THEN /\ pc' = "raised"
            /\ result' = <<"raise", effects.exception>>
            /\ state' = state
       ELSE /\ pc' = Edge(node)
            /\ result' = result
            /\ state' = Reduce(state, effects.state)
    /\ UNCHANGED <<dataset, caller, cvars, mvars>>

QueryResolution ==
    \E schema \in SchemaOutcomes, reply \in LLMOutcomes(ResolutionReplies) :
        RunNode("query_resolution", query_resolution_agent(state, schema, reply), reply)

DataExtraction ==
    \E stats \in StatsOutcomes(dataset), exec \in EngineOutcomes :
        RunNode("data_extraction", data_extraction_agent(state, stats, exec), << >>)

Validation ==
    RunNode("validation", validation_agent(state), << >>)

Synthesis ==
    \E reply \in LLMOutcomes(SynthesisReplies) :
        RunNode("synthesis", synthesis_agent(state, reply), reply)

\* process_query after graph.invoke
Return ==
    /\ pc = "END"
    /\ pc' = "returned"
    /\ \E execution_time \in ExecutionTimes, provider \in Providers :
          performance_monitor' = LogPerformance(performance_monitor, provider,
                                                caller.user_query, state,
                                                execution_time)
    /\ result' = <<"return", Get(state, "final_response", Apology)>>
    /\ UNCHANGED <<dataset, state, caller, trace, llm_calls, llm_replies, sql_calls,
                   stats_calls, direct_calls, cvars, alerts, nlogged>>

Next ==
    \/ ProcessQuery
    \/ QueryResolution
    \/ DataExtraction
    \/ Validation
    \/ Synthesis
    \/ Return

Spec == Init /\ [][Next]_vars

(***************************************************************************)
(* The orchestrator on its own, driven by one caller                       *)
(***************************************************************************)
\* a caller runs execute_with_cache to completion
ExecuteWithCache ==
    /\ ncalls < MaxCalls
    /\ \E query \in CacheQueries, executor \in ExecutorOutcomes, ttl \in TTLs,
          up_get \in BOOLEAN, up_set \in BOOLEAN :
        LET done == execute_with_cache(orchestrator, query, executor, ttl, now,
                                       up_get, up_set)
        IN /\ orchestrator' = done.orch
           /\ prev_call' = last_call
           /\ last_call' = done.call
    /\ ncalls' = ncalls + 1
    /\ UNCHANGED <<now, redis_twin, threads, wvars, mvars>>

\* a caller clears the cache; the call records start afresh
ClearCache ==
    /\ last_call # << >>
    /\ \E up \in BOOLEAN :
        orchestrator' = [orchestrator EXCEPT !.cache = QueryCache_clear(@, up)]
    /\ prev_call' = << >>
    /\ last_call' = << >>
    /\ UNCHANGED <<now, ncalls, redis_twin, threads, wvars, mvars>>

\* time passes
Tick ==
    /\ now < MaxTime
    /\ now' = now + 1
    /\ UNCHANGED <<orchestrator, ncalls, prev_call, last_call, redis_twin, threads,
                   wvars, mvars>>

\* no assistant is constructed: the orchestrator stands alone
NoAssistant ==
    /\ dataset = << >>
    /\ pc = "idle"
    /\ state = << >>
    /\ caller = << >>
    /\ trace = << >>
    /\ llm_calls = << >>
    /\ llm_replies = << >>
    /\ sql_calls = << >>
    /\ stats_calls = << >>
    /\ direct_calls = 0
    /\ result = << >>

InitCache ==
    /\ NoAssistant
    /\ NoMonitor
    /\ \E c \in QueryCaches : CacheInit(c)

NextCache ==
    \/ ExecuteWithCache
    \/ ClearCache
    \/ Tick

SpecCache == InitCache /\ [][NextCache]_vars

(***************************************************************************)
(* The same calls made on two orchestrators, one over the in-process cache *)
(* and one over the external key-value cache, whose server stays reachable *)
(***************************************************************************)
\* a caller runs the same execute_with_cache call on both orchestrators;
\* executor_fn does the same on either, if it is invoked
ExecuteOnBoth ==
    /\ ncalls < MaxCalls
    /\ \E query \in CacheQueries, executor \in ExecutorOutcomes, ttl \in TTLs :
        LET in_process == execute_with_cache(orchestrator, query, executor, ttl,
                                             now, TRUE, TRUE)
            external == execute_with_cache(redis_twin, query, executor, ttl,
                                           now, TRUE, TRUE)
        IN /\ orchestrator' = in_process.orch
           /\ redis_twin' = external.orch
           /\ prev_call' = last_call
           /\ last_call' = in_process.call
    /\ ncalls' = ncalls + 1
    /\ UNCHANGED <<now, threads, wvars, mvars>>

InitBackends ==
    /\ NoAssistant
    /\ NoMonitor
    /\ orchestrator = NewOrchestrator(NewQueryCache("memory", FALSE, TRUE))
    /\ redis_twin = NewOrchestrator(NewQueryCache("redis", TRUE, TRUE))
    /\ threads = << >>
    /\ now = 0
    /\ ncalls = 0
    /\ prev_call = << >>
    /\ last_call = << >>

NextBackends ==
    \/ ExecuteOnBoth
    \/ Tick

SpecBackends == InitBackends /\ [][NextBackends]_vars

(***************************************************************************)
(* The performance monitor on its own: records are logged on top of a log  *)
(* that earlier log_query calls built, and the thresholds are checked      *)
(***************************************************************************)
\* the arguments of direct log_query calls
MonitorInputs ==
    { <<"SELECT * FROM sales", 2500, 1500, "gpt-3.5-turbo">>,
      <<"SELECT * FROM sales", 12000, 2000, "gpt-4">>,
      <<"SELECT * FROM inventory", 10000, 1500, "gemini-2.5-flash">> }

MonitorEntries == {LogEntry(p[1], p[2], p[3], p[4]) : p \in MonitorInputs}

\* the log after n log_query calls with the same arguments
Fill(n, entry) == [i \in 1..n |-> entry]

\* the logs a run of the monitor starts with
MonitorLogs ==
    {<< >>}
    \cup {Fill(n, e) : n \in {RecentWindow - 1, RecentWindow}, e \in MonitorEntries}
    \cup {<<LogEntry("SELECT * FROM sales", 12000, 2000, "gpt-4")>>
          \o Fill(RecentWindow - 1,
                  LogEntry("SELECT * FROM sales", 2500, 1500, "gpt-3.5-turbo"))}

\* thresholds callers pass: 0.25 and 5 dollars, 2 and 10 seconds
MaxCosts == {25000000, 500000000}
MaxLatencies == {2000, 10000}

\* final states process_query logs an invocation from
LoggedFinalStates ==
    {[final_response |-> "Revenue was strong this period."], [iteration |-> 1]}

\* a caller logs a query on the monitor
LogQuery ==
    /\ nlogged < MaxLogged
    /\ \E p \in MonitorInputs :
          performance_monitor' = log_query(performance_monitor, p[1], p[2], p[3], p[4])
    /\ alerts' = << >>
    /\ nlogged' = nlogged + 1
    /\ UNCHANGED <<wvars, cvars>>

\* process_query logs an invocation that has returned
LogInvocation ==
    /\ nlogged < MaxLogged
    /\ \E execution_time \in ExecutionTimes, provider \in Providers,
          final_state \in LoggedFinalStates :
          performance_monitor' =
              LogPerformance(performance_monitor, provider,
                             "What is the total revenue?", final_state,
                             execution_time)
    /\ alerts' = << >>
    /\ nlogged' = nlogged + 1
    /\ UNCHANGED <<wvars, cvars>>

\* a caller asks for the alerts
GetAlerts ==
    /\ \E max_cost \in MaxCosts, max_latency \in MaxLatencies :
          alerts' = [max_cost |-> max_cost, max_latency |-> max_latency,
                     returned |-> get_alerts(performance_monitor, max_cost,
                                             max_latency)]
    /\ UNCHANGED <<performance_monitor, nlogged, wvars, cvars>>

InitMonitor ==
    /\ NoAssistant
    /\ CacheInit(NewQueryCache("memory", FALSE, TRUE))
    /\ performance_monitor \in {[query_log |-> l] : l \in MonitorLogs}
    /\ alerts = << >>
    /\ nlogged = 0

NextMonitor ==
    \/ LogQuery
    \/ LogInvocation
    \/ GetAlerts

SpecMonitor == InitMonitor /\ [][NextMonitor]_vars

(***************************************************************************)
(* Several callers inside execute_with_cache at once, on one orchestrator  *)
(* over the in-process cache. The method takes no lock: a caller can be    *)
(* preempted between any two of its steps, and `metrics[k] += 1` reads the *)
(* counter and writes it back in two steps.                                *)
(***************************************************************************)
Callers == {"caller_1", "caller_2"}

\* a caller entering execute_with_cache(query, executor_fn)
EnterCall(query, executor) ==
    [at |-> "get", counter |-> "", loaded |-> 0,
     query |-> query, executor |-> executor,
     result |-> None, hit |-> FALSE, outcome |-> << >>]

\* where a caller goes once it has written counter back
AfterIncrement(counter) ==
    CASE counter = "cache_hits" -> [at |-> "done", counter |-> ""]
      [] counter = "cache_misses" -> [at |-> "load", counter |-> "queries_executed"]
      [] counter = "queries_executed" -> [at |-> "executor", counter |-> ""]
      [] counter = "errors" -> [at |-> "done", counter |-> ""]

\* result = self.cache.get(cache_key); if result is not None
Lookup(t) ==
    /\ threads[t].at = "get"
    /\ LET looked_up == QueryCache_get(orchestrator.cache, Md5Hex(threads[t].query),
                                       now, TRUE)
       IN threads' = [threads EXCEPT
                         ![t].result = looked_up,
                         ![t].hit = IsHit(looked_up),
                         ![t].at = "load",
                         ![t].counter = IF IsHit(looked_up) THEN "cache_hits"
                                        ELSE "cache_misses"]
    /\ UNCHANGED <<orchestrator, now, ncalls, prev_call, last_call, redis_twin,
                   wvars, mvars>>

\* the read of self.metrics[counter] += 1
LoadCounter(t) ==
    /\ threads[t].at = "load"
    /\ threads' = [threads EXCEPT
                      ![t].loaded = orchestrator.metrics[threads[t].counter],
                      ![t].at = "store"]
    /\ UNCHANGED <<orchestrator, now, ncalls, prev_call, last_call, redis_twin,
                   wvars, mvars>>

\* the write of self.metrics[counter] += 1, and the return or raise after it
StoreCounter(t) ==
    /\ threads[t].at = "store"
    /\ orchestrator' = [orchestrator EXCEPT
                           !.metrics[threads[t].counter] = threads[t].loaded + 1]
    /\ LET next == AfterIncrement(threads[t].counter) IN
       threads' = [threads EXCEPT
                      ![t].at = next.at,
                      ![t].counter = next.counter,
                      ![t].outcome =
                          IF threads[t].counter = "cache_hits"
                          THEN <<"return", threads[t].result>>
                          ELSE IF threads[t].counter = "errors"
                          THEN <<"raise", threads[t].executor[2]>>
                          ELSE << >>]
    /\ UNCHANGED <<now, ncalls, prev_call, last_call, redis_twin, wvars, mvars>>

\* result = executor_fn(query)
RunExecutor(t) ==
    /\ threads[t].at = "executor"
    /\ threads' = IF threads[t].executor[1] = "ok"
                  THEN [threads EXCEPT ![t].result = threads[t].executor[2],
                                       ![t].at = "set"]
                  ELSE [threads EXCEPT ![t].at = "load",
                                       ![t].counter = "errors"]
    /\ UNCHANGED <<orchestrator, now, ncalls, prev_call, last_call, redis_twin,
                   wvars, mvars>>

\* self.cache.set(cache_key, result, ttl); return result
StoreResult(t) ==
    /\ threads[t].at = "set"
    /\ orchestrator' = [orchestrator EXCEPT !.cache =
                           QueryCache_set(@, Md5Hex(threads[t].query),
                                          threads[t].result, DefaultTtl, now, TRUE)]
    /\ threads' = [threads EXCEPT ![t].at = "done",
                                  ![t].outcome = <<"return", threads[t].result>>]
    /\ UNCHANGED <<now, ncalls, prev_call, last_call, redis_twin, wvars, mvars>>

InitConcurrent ==
    /\ NoAssistant
    /\ NoMonitor
    /\ orchestrator = NewOrchestrator(NewQueryCache("memory", FALSE, TRUE))
    /\ now = 0
    /\ ncalls = 0
    /\ prev_call = << >>
    /\ last_call = << >>
    /\ redis_twin = << >>
    /\ threads \in [Callers -> {EnterCall(q, e) :
                                   q \in CacheQueries, e \in ExecutorOutcomes}]

NextConcurrent ==
    \/ \E t \in Callers : Lookup(t)
    \/ \E t \in Callers : LoadCounter(t)
    \/ \E t \in Callers : StoreCounter(t)
    \/ \E t \in Callers : RunExecutor(t)
    \/ \E t \in Callers : StoreResult(t)

SpecConcurrent == InitConcurrent /\ [][NextConcurrent]_vars

(***************************************************************************)
(* validation_agent on its own: it is called on any state whose status is  *)
(* unset or was set by an earlier run, PASSED only over data that some     *)
(* stage marks PASSED                                                      *)
(***************************************************************************)
ValidationData ==
    Datasets
    \cup {<< >>}
    \cup {PackageFrame(DataFrame(shape, n)) :
            shape \in {"category_sales", "stock"}, n \in {0, 1, 2}}
    \cup {[error |-> "Query error: no such table", data |-> << >>, row_count |-> 0],
          [error |-> "partial result", data |-> << >>, row_count |-> 2],
          [data |-> << >>, columns |-> << >>],
          [row_count |-> 3]}

ValidationEntries ==
    {[initial_state(q, m) EXCEPT !.data_result = d, !.validation_status = v] :
        q \in {"What is the total revenue?"}, m \in Modes,
        d \in ValidationData, v \in {"", "WARNING", "FAILED"}}
    \cup
    {[initial_state(q, m) EXCEPT !.data_result = d, !.validation_status = "PASSED"] :
        q \in {"What is the total revenue?"}, m \in Modes,
        d \in Datasets \cup {PackageFrame(DataFrame("category_sales", n)) : n \in {1, 2}}}

InitValidation ==
    /\ dataset \in Datasets
    /\ pc = "validation"
    /\ state \in ValidationEntries
    /\ caller = [user_query |-> state.user_query, query_type |-> state.query_type]
    /\ trace = << >>
    /\ llm_calls = << >>
    /\ llm_replies = << >>
    /\ sql_calls = << >>
    /\ stats_calls = << >>
    /\ direct_calls = 0
    /\ result = << >>
    /\ CacheInit(NewQueryCache("memory", FALSE, TRUE))
    /\ NoMonitor

NextValidation == Validation

SpecValidation == InitValidation /\ [][NextValidation]_vars

(***************************************************************************)
(* Properties                                                              *)
(***************************************************************************)
StageOrder == <<"query_resolution", "data_extraction", "validation", "synthesis">>

\* the stage named node has finished in the running invocation
AfterExtraction == pc \in {"validation", "synthesis", "END", "returned"}
AfterValidation == pc \in {"synthesis", "END", "returned"}
AfterSynthesis == pc \in {"END", "returned"}

\* the one execute_query call of the invocation, when there is one
SqlRaised == Len(sql_calls) = 1 /\ sql_calls[1].outcome[1] = "raise"
SqlReturned == Len(sql_calls) = 1 /\ sql_calls[1].outcome[1] = "ok"

\* C1: in every invocation the query_type the stages after Resolution read
\* is the query_type the caller supplied, whatever the LLM replied.
C1_QueryModeUnchanged ==
    pc \in {"data_extraction", "validation", "synthesis", "END", "returned"}
        => state.query_type = caller.query_type

\* C2: the stages run once each, in the order Resolution, Extraction,
\* Validation, Synthesis: what has run is always an initial part of that
\* order, the node about to run is the next one of it, and a completed
\* invocation has run all four.
C2_StagesOnceInOrder ==
    /\ Len(trace) <= Len(StageOrder)
    /\ \A i \in 1..Len(trace) : trace[i] = StageOrder[i]
    /\ \A i \in 1..Len(StageOrder) : pc = StageOrder[i] => Len(trace) = i - 1
    /\ AfterSynthesis => trace = StageOrder

C2_Witness ==
    /\ pc = "returned"
    /\ trace = StageOrder
    /\ state.validation_status = "WARNING"

\* C3: in an invocation started with query_type summary no SQL is ever
\* executed, and from the end of Extraction on data_result is the aggregate
\* statistics and validation_status is PASSED.
C3_SummarySkipsSql ==
    (caller # << >> /\ caller.query_type = "summary")
        => /\ sql_calls = << >>
           /\ AfterExtraction
                => /\ state.data_result = dataset
                   /\ state.validation_status = "PASSED"

C3_Witness ==
    /\ pc = "returned"
    /\ caller.query_type = "summary"
    /\ state.sql_query # ""
    /\ state.validation_status = "PASSED"

\* C4: an invocation started with query_type summary ends with Synthesis
\* having made the long-form call of the unconstrained LLM on the full
\* data_result, without consulting the direct-answer generator or the
\* short profile.
C4_SummaryLongForm ==
    (AfterSynthesis /\ caller.query_type = "summary")
        => /\ direct_calls = 0
           /\ Len(llm_calls) = 2
           /\ llm_calls[2].llm = "llm"
           /\ llm_calls[2].prompt = "summary"
           /\ llm_calls[2].inputs = <<state.user_query, state.data_result>>

\* C5: when the SQL of a qa invocation raises and the aggregate statistics
\* are available, Extraction leaves the statistics as data_result with no
\* error and validation_status PASSED, and Synthesis answers through the
\* direct-answer generator or, when no rule answers, through the short LLM
\* profile on the concise rendering; the failure prompt is never used.
C5_SqlFailureFallsBack ==
    (/\ AfterExtraction
     /\ caller.query_type = "qa"
     /\ SqlRaised
     /\ stats_calls = <<"ok">>)
        => /\ state.data_result = dataset
           /\ "error" \notin DOMAIN state.data_result
           /\ state.validation_status = "PASSED"
           /\ AfterSynthesis
                => /\ direct_calls = 1
                   /\ \A i \in 1..Len(llm_calls) : llm_calls[i].prompt # "failed"
                   /\ LET answer == generate_direct_answer(state.user_query, dataset) IN
                      IF answer # << >>
                      THEN /\ Len(llm_calls) = 1
                           /\ state.final_response = answer[1]
                      ELSE /\ Len(llm_calls) = 2
                           /\ llm_calls[2].llm = "llm_short"
                           /\ llm_calls[2].prompt = "qa_concise"
                           /\ llm_calls[2].inputs =
                                <<state.user_query,
                                  format_data_concisely(state.user_query, dataset)>>

C5_Witness ==
    /\ pc = "returned"
    /\ caller.query_type = "qa"
    /\ SqlRaised
    /\ stats_calls = <<"ok">>
    /\ Len(llm_calls) = 2
    /\ llm_calls[2].llm = "llm_short"

\* C6: when the SQL of a qa invocation succeeds with zero rows, Extraction
\* stores an empty tabular result, Validation sets WARNING, and Synthesis
\* produces the final response by calling the LLM with the no-results
\* prompt, without consulting the direct-answer generator.
C6_ZeroRowsWarn ==
    (/\ AfterExtraction
     /\ caller.query_type = "qa"
     /\ SqlReturned
     /\ FrameLen(sql_calls[1].outcome[2]) = 0)
        => /\ DOMAIN state.data_result \cap {"data", "row_count", "error"}
                = {"data", "row_count"}
           /\ state.data_result.data = << >>
           /\ state.data_result.row_count = 0
           /\ AfterValidation => state.validation_status = "WARNING"
           /\ AfterSynthesis
                => /\ direct_calls = 0
                   /\ Len(llm_calls) = 2
                   /\ llm_calls[2].llm = "llm"
                   /\ llm_calls[2].prompt = "warning"
                   /\ llm_calls[2].inputs = <<state.user_query>>
                   /\ state.final_response \in SynthesisReplies

C6_Witness ==
    /\ pc = "returned"
    /\ caller.query_type = "qa"
    /\ SqlReturned
    /\ FrameLen(sql_calls[1].outcome[2]) = 0
    /\ state.validation_status = "WARNING"

\* C7 as stated: the status Validation yields is FAILED when data_result
\* has an error key, WARNING when it has none and row_count is 0 or absent,
\* PASSED when it has none and row_count is positive.
C7_StatusFromErrorAndRows ==
    (pc = "synthesis" /\ trace # << >> /\ trace[Len(trace)] = "validation")
        => state.validation_status =
             IF "error" \in DOMAIN state.data_result THEN "FAILED"
             ELSE IF "row_count" \notin DOMAIN state.data_result THEN "WARNING"
             ELSE IF state.data_result.row_count = 0 THEN "WARNING"
             ELSE "PASSED"

\* C7, amended: a validation_status that is PASSED on entry is kept;
\* otherwise the status Validation yields is FAILED when data_result has an
\* error key, WARNING when it has none and row_count is 0 or absent, PASSED
\* when it has none and row_count is positive.
C7_StatusKeptOrClassified ==
    [][(pc = "validation" /\ pc' = "synthesis")
        => state'.validation_status =
             IF state.validation_status = "PASSED" THEN "PASSED"
             ELSE IF "error" \in DOMAIN state.data_result THEN "FAILED"
             ELSE IF "row_count" \notin DOMAIN state.data_result THEN "WARNING"
             ELSE IF state.data_result.row_count = 0 THEN "WARNING"
             ELSE "PASSED"]_vars

C7_Witness ==
    /\ pc = "synthesis"
    /\ trace = <<"validation">>
    /\ "error" \notin DOMAIN state.data_result
    /\ "row_count" \notin DOMAIN state.data_result
    /\ state.validation_status = "WARNING"
    /\ state.messages[Len(state.messages)] = AIMessage("Validation: WARNING")

\* C8: when the SQL of a qa invocation succeeds with more than 100 rows, the
\* packaged data_result holds exactly the first 100 rows of the engine's
\* result, in the engine's order, and its row_count is 100.
C8_TruncatesToFirst100 ==
    (/\ AfterExtraction
     /\ caller.query_type = "qa"
     /\ SqlReturned
     /\ FrameLen(sql_calls[1].outcome[2]) > RowLimit)
        => /\ state.data_result.data =
                SubSeq(sql_calls[1].outcome[2].records, 1, RowLimit)
           /\ Len(state.data_result.data) = RowLimit
           /\ state.data_result.row_count = RowLimit

C8_Witness ==
    /\ pc = "validation"
    /\ caller.query_type = "qa"
    /\ SqlReturned
    /\ FrameLen(sql_calls[1].outcome[2]) = MaxEngineRows
    /\ state.data_result.row_count = RowLimit

\* the direct-answer rules that carry a question pattern, in the order
\* _generate_direct_answer declares them for the data_result Synthesis holds:
\* whether each one's pattern matches the question, and each one's output
C9_Patterns ==
    LET q == Lower(state.user_query) IN
    IF IsSqlResult(state.data_result)
    THEN << SqlTopCategoriesPattern(q), SqlStateRevenuePattern(q),
            SqlLowStockPattern(q) >>
    ELSE << TopCategoriesPattern(q), TopStatesPattern(q), WhichStatePattern(q),
            CancelledPattern(q), TotalRevenuePattern(q), AverageOrderPattern(q),
            HowManyOrdersPattern(q), StatusDistributionPattern(q) >>

C9_Outputs ==
    LET q == Lower(state.user_query)
        d == state.data_result
    IN IF IsSqlResult(d)
       THEN << SqlTopCategoriesRule(q, d), SqlStateRevenueRule(q, d),
               SqlLowStockRule(q, d) >>
       ELSE << TopCategoriesRule(q, d), TopStatesRule(q, d), WhichStateRule(q, d),
               CancelledRule(q, d), TotalRevenueRule(q, d), AverageOrderRule(q, d),
               HowManyOrdersRule(q, d), StatusDistributionRule(q, d) >>

C9_Matching == {i \in DOMAIN C9_Patterns : C9_Patterns[i]}

C9_Answering == {i \in C9_Matching : C9_Outputs[i] # << >>}

\* Synthesis has run with PASSED and qa on a question that matches the
\* patterns of two or more rules
C9_Case ==
    /\ AfterSynthesis
    /\ state.validation_status = "PASSED"
    /\ state.query_type = "qa"
    /\ Cardinality(C9_Matching) >= 2

\* C9 as stated: when the question matches the patterns of two or more
\* direct-answer rules, the output of the first-declared matching rule is
\* the final response and Synthesis makes no LLM call.
C9_FirstMatchingRuleAnswers ==
    C9_Case
        => LET first == CHOOSE i \in C9_Matching : \A j \in C9_Matching : i <= j IN
           /\ C9_Outputs[first] # << >>
           /\ state.final_response = C9_Outputs[first][1]
           /\ Len(llm_calls) = 1

\* C9, amended: when the question matches the patterns of two or more
\* direct-answer rules and at least one of them has data to format, the
\* output of the first-declared such rule is the final response and
\* Synthesis makes no LLM call.
C9_FirstAnsweringRuleAnswers ==
    (C9_Case /\ C9_Answering # {})
        => LET first == CHOOSE i \in C9_Answering : \A j \in C9_Answering : i <= j IN
           /\ state.final_response = C9_Outputs[first][1]
           /\ Len(llm_calls) = 1
           /\ direct_calls = 1

C9_Witness ==
    /\ pc = "returned"
    /\ C9_Case
    /\ C9_Answering # {}
    /\ C9_Answering # C9_Matching
    /\ Len(llm_calls) = 1

\* C10: of two sequential calls of execute_with_cache with the same query
\* string on the in-process cache, the first of which returned, the second
\* is a cache hit that does not invoke the executor and returns the first
\* call's value.
C10_SecondCallIsHit ==
    (/\ orchestrator.cache.backend = "memory"
     /\ prev_call # << >>
     /\ last_call # << >>
     /\ prev_call.query = last_call.query
     /\ prev_call.outcome[1] = "return")
        => /\ last_call.hit
           /\ ~last_call.executed
           /\ last_call.outcome = prev_call.outcome

\* C11: after every call of a sequence of execute_with_cache calls made
\* both on an orchestrator over the in-process cache and on one over the
\* external key-value cache, the two have the same cache_hits and the same
\* cache_misses.
C11_BackendsCountAlike ==
    /\ orchestrator.metrics.cache_hits = redis_twin.metrics.cache_hits
    /\ orchestrator.metrics.cache_misses = redis_twin.metrics.cache_misses

\* C12: when the workflow completes, process_query returns final_response
\* when that is non-empty and the fixed apology string when it is empty, so
\* never an empty string.
C12_NeverReturnsEmpty ==
    pc = "returned"
        => /\ result[1] = "return"
           /\ result[2] # ""
           /\ result[2] = IF state.final_response # ""
                          THEN state.final_response
                          ELSE Apology

\* the Resolution LLM replied with text that, fences stripped, is not JSON
ResolutionReplyUnparsable ==
    /\ llm_replies # << >>
    /\ llm_replies[1][1] = "ok"
    /\ json_loads(StripFences(llm_replies[1][2])) = <<"JSONDecodeError">>

\* C13: when the Resolution reply cannot be parsed as JSON, Resolution
\* raises nothing and hands on to Extraction with sql_query empty, it makes
\* one LLM call only, no SQL is ever executed, and the invocation goes on
\* through Extraction, Validation and Synthesis to a final response unless
\* one of those stages raises.
C13_ParseFailureRecovered ==
    ResolutionReplyUnparsable
        => /\ Len(trace) = 1 => pc = "data_extraction"
           /\ pc \in {"data_extraction", "validation", "synthesis", "END", "returned"}
                => state.sql_query = ""
           /\ Cardinality({i \in 1..Len(llm_calls) :
                              llm_calls[i].prompt = "resolution"}) = 1
           /\ sql_calls = << >>
           /\ pc = "raised"
                => \/ stats_calls # << >> /\ stats_calls[Len(stats_calls)] = "raise"
                   \/ Len(llm_replies) = 2 /\ llm_replies[2][1] = "raise"
           /\ AfterSynthesis
                => /\ trace = StageOrder
                   /\ state.messages[Len(state.messages)]
                        = AIMessage(state.final_response)

C13_Witness ==
    /\ pc = "returned"
    /\ ResolutionReplyUnparsable
    /\ Contains(llm_replies[1][2], Fence)
    /\ state.final_response # ""

\* C14: when the executor raises on a cache miss, errors grows by exactly
\* 1, the exception reaches the caller and the cache is left as it was; and
\* when no entry was stored for the query, the next call with the same
\* query is again a miss that invokes the executor.
C14_ExecutorFailure ==
    [][ncalls' = ncalls + 1
        => /\ last_call'.outcome[1] = "raise"
                => /\ ~last_call'.hit
                   /\ last_call'.executed
                   /\ orchestrator'.metrics.errors = orchestrator.metrics.errors + 1
                   /\ orchestrator'.metrics.cache_misses
                        = orchestrator.metrics.cache_misses + 1
                   /\ orchestrator'.metrics.cache_hits = orchestrator.metrics.cache_hits
                   /\ orchestrator'.cache = orchestrator.cache
           /\ last_call'.outcome[1] = "return"
                => orchestrator'.metrics.errors = orchestrator.metrics.errors
           /\ (/\ last_call # << >>
               /\ last_call.outcome[1] = "raise"
               /\ last_call'.query = last_call.query
               /\ QueryCache_get(orchestrator.cache, Md5Hex(last_call.query),
                                 last_call.at, TRUE) = None)
                => /\ ~last_call'.hit
                   /\ last_call'.executed]_vars

C14_Witness ==
    /\ prev_call # << >>
    /\ prev_call.outcome[1] = "raise"
    /\ last_call.query = prev_call.query
    /\ last_call.executed
    /\ last_call.outcome[1] = "return"
    /\ orchestrator.metrics.errors = 1

\* C15: an LLM call that raises in Resolution or Synthesis, and the
\* aggregate-statistics provider raising where no SQL was tried, end the
\* invocation with the exception handed to the caller of process_query: no
\* response string is returned and no stage runs after the one that raised.
C15_UncaughtPropagates ==
    /\ (llm_replies # << >> /\ llm_replies[Len(llm_replies)][1] = "raise")
            => /\ pc = "raised"
               /\ result = <<"raise", llm_replies[Len(llm_replies)][2]>>
               /\ trace = IF Len(llm_replies) = 1 THEN <<"query_resolution">>
                          ELSE StageOrder
    /\ (/\ stats_calls # << >>
        /\ stats_calls[Len(stats_calls)] = "raise"
        /\ sql_calls = << >>)
            => /\ pc = "raised"
               /\ result[1] = "raise"
               /\ trace \in {<< >>, <<"query_resolution", "data_extraction">>}
    /\ pc = "raised" => result # << >> /\ result[1] = "raise"
    /\ pc = "returned" => result[1] = "return"

C15_Witness ==
    /\ pc = "raised"
    /\ trace = StageOrder
    /\ Len(llm_replies) = 2
    /\ llm_replies[2][1] = "raise"

\* C16: in a qa invocation whose sql_query is empty after Resolution,
\* Extraction executes no SQL, sets data_result to the aggregate statistics
\* and sets validation_status to PASSED.
C16_EmptySqlUsesStatistics ==
    (/\ caller # << >>
     /\ caller.query_type = "qa"
     /\ Len(trace) >= 2
     /\ state.sql_query = "")
        => /\ sql_calls = << >>
           /\ Len(stats_calls) = 1
           /\ AfterExtraction
                => /\ stats_calls = <<"ok">>
                   /\ state.data_result = dataset
                   /\ state.validation_status = "PASSED"

C16_Witness ==
    /\ pc = "validation"
    /\ caller.query_type = "qa"
    /\ state.sql_query = ""
    /\ llm_replies = << <<"ok", JsonNoSql>> >>
    /\ state.validation_status = "PASSED"

\* the error record Extraction packages when the SQL raised with exception
\* text exc and the fallback raised too
C17_ErrorRecord ==
    [error |-> "Query error: " \o sql_calls[1].outcome[2],
     data |-> << >>, row_count |-> 0]

\* C17: in a qa invocation where the SQL raises and the aggregate-statistics
\* fallback raises too, Extraction raises nothing, packages an error record
\* with no rows and row_count 0 and leaves validation_status unset;
\* Validation then sets FAILED, and Synthesis answers through the apology
\* prompt of the LLM, which receives the error text.
C17_DoubleFailure ==
    (/\ caller # << >>
     /\ caller.query_type = "qa"
     /\ SqlRaised
     /\ stats_calls = <<"raise">>)
        => /\ Len(trace) = 2 => pc = "validation"
           /\ AfterExtraction => state.data_result = C17_ErrorRecord
           /\ pc = "validation" => state.validation_status = ""
           /\ AfterValidation => state.validation_status = "FAILED"
           /\ (AfterSynthesis \/ (pc = "raised" /\ Len(trace) = 4))
                => /\ direct_calls = 0
                   /\ Len(llm_calls) = 2
                   /\ llm_calls[2].llm = "llm"
                   /\ llm_calls[2].prompt = "failed"
                   /\ llm_calls[2].inputs = <<caller.user_query, C17_ErrorRecord.error>>
           /\ AfterSynthesis => state.final_response = llm_replies[2][2]

C17_Witness ==
    /\ pc = "returned"
    /\ caller.query_type = "qa"
    /\ SqlRaised
    /\ stats_calls = <<"raise">>
    /\ state.validation_status = "FAILED"
    /\ state.final_response # ""

C19_StatusWrittenOnce ==
    [][/\ (pc = "query_resolution" /\ pc' = "data_extraction")
            => /\ state.validation_status = ""
               /\ state'.validation_status = ""
       /\ (pc = "data_extraction" /\ pc' = "validation")
            => /\ state.validation_status = ""
               /\ state'.validation_status \in {"", "PASSED"}
       /\ (pc = "validation" /\ pc' = "synthesis")
            => IF state.validation_status = ""
               THEN state'.validation_status \in {"PASSED", "WARNING", "FAILED"}
               ELSE /\ state.validation_status = "PASSED"
                    /\ state'.validation_status = "PASSED"
       /\ (pc = "synthesis" /\ pc' = "END")
            => /\ state.validation_status # ""
               /\ state'.validation_status = state.validation_status
       /\ (pc = "END" /\ pc' = "returned")
            => state'.validation_status = state.validation_status]_vars

C19_Witness ==
    /\ pc = "returned"
    /\ SqlReturned
    /\ FrameLen(sql_calls[1].outcome[2]) = 2
    /\ state.validation_status = "PASSED"

\* Synthesis has consulted the direct-answer generator on a tabular
\* data_result with at least one row for which no tabular rule answers
C20_Case ==
    /\ AfterSynthesis
    /\ state.query_type = "qa"
    /\ state.validation_status = "PASSED"
    /\ IsSqlResult(state.data_result)
    /\ state.data_result.row_count >= 1
    /\ FirstAnswer(SqlRuleAnswers(Lower(state.user_query), state.data_result)) = << >>

\* C20 as stated: when data_result is tabular with at least one row and no
\* tabular rule answers, the aggregate-statistics rules are tried against
\* the question, and the LLM is used only when they give no answer either.
C20_AggregateRulesTried ==
    C20_Case
        => LET aggregate == FirstAnswer(StatsRuleAnswers(Lower(state.user_query),
                                                         state.data_result))
           IN IF aggregate # << >>
              THEN /\ state.final_response = aggregate[1]
                   /\ Len(llm_calls) = 1
              ELSE Len(llm_calls) = 2

\* C20, amended: when data_result is tabular with at least one row and no
\* tabular rule answers, the generator gives up without trying the
\* aggregate-statistics rules, and Synthesis answers through the short LLM
\* profile on the rows.
C20_TabularGivesUp ==
    C20_Case
        => /\ direct_calls = 1
           /\ Len(llm_calls) = 2
           /\ llm_calls[2].llm = "llm_short"
           /\ llm_calls[2].prompt = "qa_rows"
           /\ state.final_response = llm_replies[2][2]

C20_Witness ==
    /\ pc = "returned"
    /\ C20_Case
    /\ FirstAnswer(StatsRuleAnswers(Lower(state.user_query), state.data_result))
         # << >>
    /\ state.final_response # ""

\* C21: final_response is set by Synthesis only, and on every path through
\* Synthesis that returns, the text it settles on (the direct answer, or
\* else the reply of its LLM call) is final_response and is the last entry
\* of the message log.
C21_ResponseLogged ==
    /\ pc \in {"query_resolution", "data_extraction", "validation", "synthesis"}
            => state.final_response = ""
    /\ AfterSynthesis
            => /\ state.messages[Len(state.messages)].content = state.final_response
               /\ state.messages[Len(state.messages)].type = "ai"
               /\ state.final_response =
                    IF Len(llm_calls) = 2
                    THEN llm_replies[2][2]
                    ELSE generate_direct_answer(state.user_query, state.data_result)[1]

C21_Witness ==
    /\ pc = "END"
    /\ state.validation_status = "FAILED"
    /\ state.final_response = "Revenue was strong this period."
    /\ state.messages[Len(state.messages)] = AIMessage(state.final_response)

\* C22: across every stage of an invocation the message log only grows: the
\* log held before the stage is an initial part of the log held after it,
\* entry for entry, and the first entry is always the caller's question.
C22_LogOnlyGrows ==
    [][/\ (pc \in {"query_resolution", "data_extraction", "validation", "synthesis"}
           /\ pc' # "raised")
            => /\ Len(state'.messages) >= Len(state.messages)
               /\ \A i \in 1..Len(state.messages) :
                     state'.messages[i] = state.messages[i]
       /\ pc' \in {"query_resolution", "data_extraction", "validation", "synthesis",
                   "END", "returned"}
            => /\ state'.messages # << >>
               /\ state'.messages[1] = HumanMessage(caller'.user_query)]_vars

C22_Witness ==
    /\ pc = "returned"
    /\ state.messages[1] = HumanMessage(caller.user_query)
    /\ Len(state.messages) > 8
    /\ state.validation_status = "WARNING"

C27_CounterRelations ==
    [][LET was == orchestrator.metrics
           is == orchestrator'.metrics
       IN /\ is.queries_executed = is.cache_misses
          /\ is.errors <= is.cache_misses
          /\ is.cache_hits + is.cache_misses = ncalls'
          /\ get_metrics(orchestrator').total_requests = ncalls'
          /\ is.queries_executed >= was.queries_executed
          /\ is.cache_hits >= was.cache_hits
          /\ is.cache_misses >= was.cache_misses
          /\ is.errors >= was.errors
          /\ (ncalls' = ncalls + 1 /\ last_call'.outcome[1] = "raise")
                => /\ is.queries_executed = was.queries_executed + 1
                   /\ is.errors = was.errors + 1]_vars

\* two misses, the second one's executor raising
C27_Witness ==
    /\ ncalls = 2
    /\ last_call # << >> /\ last_call.outcome[1] = "raise"
    /\ orchestrator.metrics.errors = 1
    /\ orchestrator.metrics.queries_executed = 2
    /\ orchestrator.metrics.cache_misses = 2
    /\ orchestrator.metrics.cache_hits = 0

\* C28: when Synthesis starts, validation_status is PASSED, WARNING or
\* FAILED; it is FAILED only over a data_result with an error key, and
\* WARNING only over the tabular result, of row_count 0, of an SQL
\* execution that succeeded
C28_StatusAtSynthesis ==
    (pc = "synthesis" /\ caller.query_type \in {"summary", "qa"})
        => /\ state.validation_status \in {"PASSED", "WARNING", "FAILED"}
           /\ state.validation_status = "FAILED"
                => "error" \in DOMAIN state.data_result
           /\ state.validation_status = "WARNING"
                => /\ SqlReturned
                   /\ state.data_result = PackageFrame(sql_calls[1].outcome[2])
                   /\ IsSqlResult(state.data_result)
                   /\ "error" \notin DOMAIN state.data_result
                   /\ state.data_result.row_count = 0

\* Synthesis about to start on the empty result of a successful SQL
C28_Witness ==
    /\ pc = "synthesis"
    /\ caller.query_type = "qa"
    /\ state.validation_status = "WARNING"
    /\ SqlReturned
    /\ state.data_result.row_count = 0

\* C29: Synthesis never hands the direct-answer generator a tabular result
\* of row_count 0: the empty result of a successful SQL is WARNING and is
\* answered by the LLM on the no-results prompt, so no invocation answers
\* with the generator's "No matching data found"
C29_NoDirectAnswerOnZeroRows ==
    [][(pc = "synthesis" /\ pc' # "synthesis"
            /\ IsSqlResult(state.data_result) /\ state.data_result.row_count = 0)
        => /\ ~QaBranch(state)
           /\ direct_calls' = direct_calls
           /\ "error" \notin DOMAIN state.data_result
                => state.validation_status = "WARNING"
           /\ Len(llm_calls') = Len(llm_calls) + 1
           /\ llm_calls'[Len(llm_calls')].prompt \in {"warning", "failed"}
           /\ pc' = "END"
                => /\ state'.final_response = llm_replies'[Len(llm_replies')][2]
                   /\ generate_direct_answer(state.user_query, state.data_result)
                         = <<"No matching data found for your query.">>
                   /\ state'.final_response
                         # generate_direct_answer(state.user_query, state.data_result)[1]]_vars

\* an invocation whose SQL returned no rows, answered by the LLM
C29_Witness ==
    /\ pc = "returned"
    /\ SqlReturned
    /\ IsSqlResult(state.data_result)
    /\ state.data_result.row_count = 0
    /\ direct_calls = 0
    /\ Len(llm_calls) = 2 /\ llm_calls[2].prompt = "warning"
    /\ result = <<"return", "Revenue was strong this period.">>

\* C30: in an invocation that completes the LLM is called once in
\* Resolution, not at all in Extraction and Validation, and at most once
\* in Synthesis: once in all exactly when Synthesis returns a direct
\* answer, twice otherwise
C30_LlmCallCount ==
    /\ pc \in {"data_extraction", "validation", "synthesis"}
            => /\ Len(llm_calls) = 1
               /\ llm_calls[1].prompt = "resolution"
    /\ AfterSynthesis
            => /\ Len(llm_calls) \in {1, 2}
               /\ llm_calls[1].prompt = "resolution"
               /\ Len(llm_calls) = 2 => llm_calls[2].prompt # "resolution"
               /\ Len(llm_calls) = 1
                    <=> /\ direct_calls = 1
                        /\ state.validation_status = "PASSED"
                        /\ state.query_type = "qa"
                        /\ <<state.final_response>>
                             = generate_direct_answer(state.user_query,
                                                      state.data_result)

\* a completed invocation with the one call of Resolution, answered directly
C30_Witness ==
    /\ pc = "returned"
    /\ trace = StageOrder
    /\ Len(llm_calls) = 1
    /\ direct_calls = 1
    /\ state.validation_status = "PASSED"

\* the positions of the most recent 100 records of a log
RecentIndexes(log) == {i \in 1..Len(log) : i > Len(log) - RecentWindow}

\* the cost of the records at the positions idx of log, summed kind by kind
RECURSIVE CostByKind(_, _, _)
CostByKind(kinds, log, idx) ==
    IF kinds = {} THEN 0
    ELSE LET k == CHOOSE k \in kinds : TRUE IN
         k.estimated_cost * Cardinality({i \in idx : log[i] = k})
         + CostByKind(kinds \ {k}, log, idx)

\* C25: the check returns a cost alert exactly when the cost of the most
\* recent 100 records sums to more than max_cost, and a latency alert
\* exactly when one of those records took longer than max_latency; a record
\* older than those changes nothing
C25_AlertsFromRecentWindow ==
    alerts # << >> =>
        LET log == performance_monitor.query_log
            idx == RecentIndexes(log)
            cost == CostByKind({log[i] : i \in idx}, log, idx)
            slow == {i \in idx : log[i].execution_time > alerts.max_latency}
            given == alerts.returned
            costly == \E a \in 1..Len(given) : Contains(given[a], "Cost threshold exceeded")
            late == \E a \in 1..Len(given) : Contains(given[a], "slow queries")
        IN /\ costly <=> cost > alerts.max_cost
           /\ late <=> slow # {}
           /\ Len(given) = (IF costly THEN 1 ELSE 0) + (IF late THEN 1 ELSE 0)
           /\ late => Contains(given[Len(given)],
                               "ALERT: " \o NatStr(Cardinality(slow)) \o " slow")
           /\ Len(log) >= RecentWindow
                => \A older \in MonitorEntries :
                      given = check_alert_thresholds(
                                 [query_log |->
                                     <<older>> \o
                                     SubSeq(log, Len(log) - RecentWindow + 1, Len(log))],
                                 alerts.max_cost, alerts.max_latency)

\* a costly, slow record followed by a hundred cheap, quick ones: no alert
C25_Witness ==
    /\ alerts # << >>
    /\ Len(performance_monitor.query_log) = RecentWindow + 1
    /\ performance_monitor.query_log[1].estimated_cost = 6000000
    /\ performance_monitor.query_log[1].execution_time = 12000
    /\ alerts.max_cost = 25000000
    /\ alerts.max_latency = 10000
    /\ alerts.returned = << >>

\* C26 as stated: whatever the interleaving, once the N concurrent calls
\* have completed cache_hits + cache_misses = N and every result a
\* completed miss stored is still in the cache
C26_NoLostUpdate ==
    (threads # << >> /\ \A t \in Callers : threads[t].at = "done")
        => /\ orchestrator.metrics.cache_hits + orchestrator.metrics.cache_misses
                = Cardinality(Callers)
           /\ \A t \in Callers :
                 (~threads[t].hit /\ threads[t].outcome[1] = "return"
                     /\ threads[t].outcome[2] # None)
                    => /\ Md5Hex(threads[t].query)
                             \in DOMAIN orchestrator.cache.memory_cache
                       /\ orchestrator.cache.memory_cache[Md5Hex(threads[t].query)]
                             = threads[t].outcome[2]
====
